---------------------------- MODULE Spec2Model ----------------------------
(***************************************************************************)
(* A model of the web-postman services: the variable interpolator and the  *)
(* request executor (HttpService), the code generators (CodeGenService),   *)
(* the Postman converter (PostmanService), the bulk export/import          *)
(* (ExportImportService) and the environment operations of AppProvider     *)
(* over the Dexie store; further the Postman upload and cURL import        *)
(* dialogs, CollectionService.deleteCollection, the tab handlers of        *)
(* AppProvider and the WebSocket client.                                   *)
(*                                                                         *)
(* Strings the code scans character by character are sequences of          *)
(* one-character strings; strings the code only passes along are atoms.    *)
(***************************************************************************)
EXTENDS Integers, Sequences, FiniteSets, TLC

VARIABLES
    \* HttpService.interpolateVariables: one call
    ipc,            \* "ready" before the call, "done" after it returned
    text,           \* the template argument
    variables,      \* the mapping argument
    result,         \* the returned string (<<>> before the call)
    \* HttpService.sendRequest: one call
    spc,            \* "idle", "fetch" (awaiting fetch), "text" (awaiting
                    \* response.text()), "returned"
    config,         \* the RequestConfig argument
    storage,        \* localStorage: the two proxy settings
    now,            \* Date.now()
    startTime,      \* const startTime
    request,        \* what was handed to fetch: url and requestOptions
    fetched,        \* const response, and responseTime taken after fetch
    thrown,         \* the value the catch clause received, NoError if none
    settled,        \* how the returned promise settled: "pending",
                    \* "resolved", "rejected"
    response,       \* the value the promise settled with
    \* PostmanService: an export followed by an import of its output
    ppc,            \* "ready", "exported", "imported"
    pmCollections,  \* the collections argument of exportToPostman
    pmRequests,     \* the requests argument of exportToPostman
    pmText,         \* the string exportToPostman returned
    pmResult,       \* how importCollection settled
    pmCreated,      \* the createRequest calls handleFileUpload has awaited
    \* the Dexie database (tables keyed by id)
    dbCollections,  \* db.collections: a set of records of distinct ids
    dbRequests,     \* db.requests
    dbEnvironments, \* db.environments
    \* ExportImportService: one exportData / importData / importFromFile flow
    xpc,            \* "idle", "exporting", "exported", "clearing", "adding",
                    \* "done"
    xentry,         \* the method called: "none", "exportData", "importData",
                    \* "importFromFile", "roundTrip" (importData(exportData()))
    xdata,          \* the ExportData being built, returned or imported
    xpending,       \* the tables whose operation of the current Promise.all
                    \* has not completed
    xsettled,       \* how the import's promise settled: "pending",
                    \* "resolved", "rejected"
    xbefore,        \* the three tables as they were when the flow started
    \* AppProvider: the environment handlers
    environments,   \* the React state `environments`
    activeEnvironment,  \* the React state `activeEnvironment`, NoValue for null
    calls,          \* the handler invocations in flight, each waiting for
                    \* the store operation it awaits
    clock,          \* Date.now()
    sending,        \* LayoutContent.handleSendRequest while it awaits
                    \* sendRequest: the config it was given and the one it sent
    \* CodeGenService, called by CodeGenerator
    requestConfig,  \* the RequestConfig object the component holds
    generated,      \* what the last generator call returned or threw
    \* ExportImportDialog: the cURL tab
    curlText,       \* the React state `curlText`
    curlRequests,   \* const requests of the last handleCurlImport call
    curlAlert,      \* the message of its alert, "" before the first
    \* CollectionService.deleteCollection: one call and the calls it makes
    dpc,            \* "idle", "running", "done"
    dtarget,        \* the id the outermost call was given
    dstack,         \* the calls in progress, the innermost last: the id, the
                    \* step the call is at and its subCollections left
    dbefore,        \* the collections and requests when the call started
    \* AppProvider: the tab handlers
    tabs,           \* the React state `tabs`
    activeTabId,    \* the React state `activeTabId`
    initialRequestData, \* the React state `initialRequestData`, NoValue for null
    \* WebSocketClient
    wsUrl,          \* the React state `url`
    sockets,        \* the WebSocket objects constructed so far, in order
    wsRef,          \* wsRef.current: the index of a socket, 0 for null
    isConnected,    \* the React state `isConnected`
    connectionStatus,   \* the React state `connectionStatus`
    messages        \* the React state `messages`: the contents

interpVars == <<ipc, text, variables, result>>
sendVars == <<spc, config, storage, now, startTime, request, fetched, thrown,
              settled, response>>

postmanVars == <<ppc, pmCollections, pmRequests, pmText, pmResult, pmCreated>>

dbVars == <<dbCollections, dbRequests, dbEnvironments>>
transferVars == <<xpc, xentry, xdata, xpending, xsettled, xbefore>>

appVars == <<environments, activeEnvironment, calls, clock, sending>>

genVars == <<requestConfig, generated>>

curlVars == <<curlText, curlRequests, curlAlert>>

deleteVars == <<dpc, dtarget, dstack, dbefore>>

tabVars == <<tabs, activeTabId, initialRequestData>>

wsVars == <<wsUrl, sockets, wsRef, isConnected, connectionStatus, messages>>

vars == <<interpVars, sendVars, postmanVars, dbVars, transferVars, appVars, genVars, curlVars, deleteVars, tabVars, wsVars>>

\* what an action of one component leaves alone: the other components
exceptInterp == <<sendVars, postmanVars, dbVars, transferVars, appVars, genVars, curlVars, deleteVars, tabVars, wsVars>>
exceptSend == <<interpVars, postmanVars, dbVars, transferVars, appVars, genVars, curlVars, deleteVars, tabVars, wsVars>>
exceptPostman == <<interpVars, sendVars, dbVars, transferVars, appVars, genVars, curlVars, deleteVars, tabVars, wsVars>>
exceptTransfer == <<interpVars, sendVars, postmanVars, appVars, genVars, curlVars, deleteVars, tabVars, wsVars>>
exceptApp == <<interpVars, sendVars, postmanVars, transferVars, dbCollections,
               dbRequests, genVars, curlVars, deleteVars, tabVars, wsVars>>
exceptGen == <<interpVars, sendVars, postmanVars, dbVars, transferVars, appVars, curlVars, deleteVars, tabVars, wsVars>>
exceptCurl == <<interpVars, sendVars, postmanVars, dbCollections, dbEnvironments,
                transferVars, appVars, genVars, deleteVars, tabVars, wsVars>>
exceptTabs == <<interpVars, sendVars, postmanVars, dbVars, transferVars, genVars,
                curlVars, deleteVars, environments, activeEnvironment, calls, sending, wsVars>>
exceptDelete == <<interpVars, sendVars, postmanVars, dbEnvironments, transferVars,
                  appVars, genVars, curlVars, tabVars, wsVars>>

-----------------------------------------------------------------------------
(* The values of a component no call has touched.  Each specification      *)
(* below exercises one component and leaves the others in this state.      *)

NoError == [isError |-> FALSE, message |-> "(nothing thrown)"]
NoValue == [kind |-> "none"]

InterpIdle ==
    /\ ipc = "ready"
    /\ text = <<>>
    /\ variables = <<>>
    /\ result = <<>>

SendIdle ==
    /\ spc = "idle"
    /\ config = NoValue
    /\ storage = NoValue
    /\ now = 0
    /\ startTime = 0
    /\ request = NoValue
    /\ fetched = NoValue
    /\ thrown = NoError
    /\ settled = "pending"
    /\ response = NoValue

PostmanIdle ==
    /\ ppc = "ready"
    /\ pmCollections = <<>>
    /\ pmRequests = <<>>
    /\ pmText = NoValue
    /\ pmResult = NoValue
    /\ pmCreated = 0

DbEmpty ==
    /\ dbCollections = {}
    /\ dbRequests = {}
    /\ dbEnvironments = {}

TransferIdle ==
    /\ xpc = "idle"
    /\ xentry = "none"
    /\ xdata = NoValue
    /\ xpending = {}
    /\ xsettled = "pending"
    /\ xbefore = NoValue

AppIdle ==
    /\ environments = <<>>
    /\ activeEnvironment = NoValue
    /\ calls = <<>>
    /\ clock = 0
    /\ sending = NoValue

GenIdle ==
    /\ requestConfig = NoValue
    /\ generated = NoValue

CurlIdle ==
    /\ curlText = ""
    /\ curlRequests = <<>>
    /\ curlAlert = ""

WsIdle ==
    /\ wsUrl = "ws://localhost:8080"
    /\ sockets = <<>>
    /\ wsRef = 0
    /\ isConnected = FALSE
    /\ connectionStatus = "disconnected"
    /\ messages = <<>>

TabIdle ==
    /\ tabs = <<>>
    /\ activeTabId = ""
    /\ initialRequestData = NoValue

DeleteIdle ==
    /\ dpc = "idle"
    /\ dtarget = 0
    /\ dstack = <<>>
    /\ dbefore = NoValue

-----------------------------------------------------------------------------
(* Bounds *)

\* the longest template, counted in pieces of TemplatePieces
MaxPieces == 3

\* the latest reading of the clock while a request is in flight
MaxClock == 2

\* the ids a table of the store can hold at the start: 1..MaxRecords
MaxRecords == 2

\* the ids of the collections a store can hold when a delete starts:
\* 1..MaxCollections
MaxCollections == 4

\* the most calls of connect on one WebSocket client
MaxConnects == 3

\* the most tabs open at once
MaxTabs == 3

\* the most handler invocations of AppProvider in flight at once
MaxCalls == 2

-----------------------------------------------------------------------------
(* HttpService.interpolateVariables                                        *)

LBrace == "{"
RBrace == "}"

\* \w of the regular expression: [A-Za-z0-9_]; the letters the model uses
WordChars == {"a", "b", "c", "t", "o", "S", "r", "i", "n", "g"}

Placeholder(name) == <<LBrace, LBrace>> \o name \o <<RBrace, RBrace>>

NameA == <<"a">>
NameB == <<"b">>
NameToString == <<"t", "o", "S", "t", "r", "i", "n", "g">>

\* what String(Object.prototype.toString) reads
ToStringSource ==
    <<"f", "u", "n", "c", "t", "i", "o", "n", " ", "t", "o", "S", "t", "r",
      "i", "n", "g", "(", ")", " ", "{", " ", "[", "n", "a", "t", "i", "v",
      "e", " ", "c", "o", "d", "e", "]", " ", "}">>

\* variables[variableName] of a plain object: an own property, else a property
\* inherited from Object.prototype, else undefined (modelled as <<>>, which is
\* falsy like undefined and like the empty string)
PropertyGet(vs, name) ==
    IF name \in DOMAIN vs THEN vs[name]
    ELSE IF name = NameToString THEN ToStringSource
    ELSE <<>>

\* the length of the longest run of \w characters of txt starting at index i
RECURSIVE WordRun(_, _)
WordRun(txt, i) ==
    IF i <= Len(txt) /\ txt[i] \in WordChars THEN 1 + WordRun(txt, i + 1) ELSE 0

\* /\{\{(\w+)\}\}/ tried at index i: the length of the capture group, 0 when
\* the expression does not match there
MatchAt(txt, i) ==
    IF i + 1 <= Len(txt) /\ txt[i] = LBrace /\ txt[i + 1] = LBrace
    THEN LET n == WordRun(txt, i + 2)
         IN  IF n >= 1 /\ i + 3 + n <= Len(txt)
                /\ txt[i + 2 + n] = RBrace /\ txt[i + 3 + n] = RBrace
             THEN n ELSE 0
    ELSE 0

\* the replacer callback: variables[variableName] || match
Replacer(vs, match, variableName) ==
    IF PropertyGet(vs, variableName) # <<>>
    THEN PropertyGet(vs, variableName)
    ELSE match

\* String.prototype.replace with a global expression, from index i on: every
\* match, left to right, is replaced by the callback's return value, and the
\* scan resumes after the match in the input
RECURSIVE ReplaceAll(_, _, _)
ReplaceAll(txt, vs, i) ==
    IF i > Len(txt) THEN <<>>
    ELSE LET n == MatchAt(txt, i)
         IN  IF n = 0
             THEN <<txt[i]>> \o ReplaceAll(txt, vs, i + 1)
             ELSE Replacer(vs, SubSeq(txt, i, i + 3 + n), SubSeq(txt, i + 2, i + 1 + n))
                      \o ReplaceAll(txt, vs, i + 4 + n)

\* a variant that scans its own output once more
interpolateVariablesRescan(txt, vs) == ReplaceAll(ReplaceAll(txt, vs, 1), vs, 1)

interpolateVariables(txt, vs) == ReplaceAll(txt, vs, 1)

\* the templates and mappings of the model
TemplatePieces ==
    { Placeholder(NameA), Placeholder(NameB), Placeholder(NameToString),
      <<LBrace>>, <<RBrace>>, <<"-">> }

RECURSIVE Concat(_)
Concat(ps) == IF ps = <<>> THEN <<>> ELSE Head(ps) \o Concat(Tail(ps))

Templates ==
    { Concat(ps) : ps \in UNION { [1..n -> TemplatePieces] : n \in 0..MaxPieces } }

VariableNames == {NameA, NameB}
VariableValues == { <<>>, <<"c">>, Placeholder(NameA), Placeholder(NameB) }
Mappings == UNION { [ks -> VariableValues] : ks \in SUBSET VariableNames }

InterpInit ==
    /\ WsIdle
    /\ TabIdle
    /\ DeleteIdle
    /\ CurlIdle
    /\ ipc = "ready"
    /\ text \in Templates
    /\ variables \in Mappings
    /\ result = <<>>
    /\ SendIdle
    /\ PostmanIdle
    /\ DbEmpty
    /\ TransferIdle
    /\ AppIdle
    /\ GenIdle

CallInterpolate ==
    /\ ipc = "ready"
    /\ result' = interpolateVariables(text, variables)
    /\ ipc' = "done"
    /\ UNCHANGED <<text, variables>>
    /\ UNCHANGED exceptInterp

InterpNext == CallInterpolate

SpecInterp == InterpInit /\ [][InterpNext]_vars

-----------------------------------------------------------------------------
(* Claims about interpolateVariables, checked under SpecInterp             *)

\* lit occurs in txt at index i
HasAt(txt, i, lit) ==
    /\ i + Len(lit) - 1 <= Len(txt)
    /\ SubSeq(txt, i, i + Len(lit) - 1) = lit

\* the substitution C3 describes: from index i on, every {{x}} with x a key of
\* vs becomes vs[x], whatever that value is, and everything else stays
RECURSIVE ClaimedInterpolation(_, _, _)
ClaimedInterpolation(txt, vs, i) ==
    IF i > Len(txt) THEN <<>>
    ELSE IF \E x \in DOMAIN vs : HasAt(txt, i, Placeholder(x))
         THEN LET x == CHOOSE k \in DOMAIN vs : HasAt(txt, i, Placeholder(k))
              IN  vs[x] \o ClaimedInterpolation(txt, vs, i + Len(Placeholder(x)))
         ELSE <<txt[i]>> \o ClaimedInterpolation(txt, vs, i + 1)

\* C3: interpolateVariables(T, M) replaces every {{x}} with x a key of M by
\* M[x] (the empty string included) and leaves every other {{x}} verbatim.
C3_ReplacesEveryKey ==
    ipc = "done" => result = ClaimedInterpolation(text, variables, 1)

\* C4: a substituted value is not scanned again: wherever {{x}} stands in T
\* with M[x] a non-empty value, the result is the interpolation of what
\* precedes it, then M[x] verbatim (an inner {{y}} included), then the
\* interpolation of what follows it.
C4_SinglePass ==
    ipc = "done" =>
        \A i \in 1..Len(text) : \A x \in DOMAIN variables :
            (HasAt(text, i, Placeholder(x)) /\ variables[x] # <<>>) =>
                result = interpolateVariables(SubSeq(text, 1, i - 1), variables)
                            \o variables[x]
                            \o interpolateVariables(
                                   SubSeq(text, i + Len(Placeholder(x)), Len(text)),
                                   variables)

\* a call has returned whose template holds {{x}}, with M[x] = {{y}} and y a
\* key of M with a non-empty value, and the result holds {{y}}
C4_Witness ==
    /\ ipc = "done"
    /\ \E x, y \in DOMAIN variables :
          /\ variables[x] = Placeholder(y)
          /\ variables[y] # <<>>
          /\ \E i \in 1..Len(text) : HasAt(text, i, Placeholder(x))
          /\ \E j \in 1..Len(result) : HasAt(result, j, Placeholder(y))

-----------------------------------------------------------------------------
(* HttpService.sendRequest                                                 *)

\* ---- platform: URL ----
\* new URL(u) of the urls of the model: an absolute url parses into its part
\* before the query and its query pairs; anything else throws a TypeError
UrlTable(u) ==
    CASE u = "https://x.test/a" ->
            [ok |-> TRUE, base |-> "https://x.test/a", query |-> <<>>,
             protocol |-> "https:", hostname |-> <<"x", "test">>, pathname |-> <<"a">>]
      [] u = "https://x.test/p?a=1" ->
            [ok |-> TRUE, base |-> "https://x.test/p", query |-> << <<"a", "1">> >>,
             protocol |-> "https:", hostname |-> <<"x", "test">>, pathname |-> <<"p">>]
      [] u = "https://proxy.test/?url=old" ->
            [ok |-> TRUE, base |-> "https://proxy.test/", query |-> << <<"url", "old">> >>,
             protocol |-> "https:", hostname |-> <<"proxy", "test">>, pathname |-> <<>>]
      [] OTHER -> [ok |-> FALSE]

Urls == {"https://x.test/a", "https://x.test/p?a=1", "/relative"}

InvalidURL == [isError |-> TRUE, message |-> "Invalid URL"]

\* url.searchParams.append(key, value) for each entry, in the mapping's order
\* entries that take the place of the url's pairs of the same name
AppendParamsReplacing(url, params) ==
    [url EXCEPT !.query =
        SelectSeq(@, LAMBDA q : \A i \in 1..Len(params) : params[i][1] # q[1]) \o params]

AppendParams(url, params) == [url EXCEPT !.query = @ \o params]

\* searchParams.set(name, value): the first pair named name takes the value
\* and the later ones go; with no such pair, one is appended
RECURSIVE DropNamed(_, _)
DropNamed(q, name) ==
    IF q = <<>> THEN <<>>
    ELSE IF Head(q)[1] = name THEN DropNamed(Tail(q), name)
    ELSE <<Head(q)>> \o DropNamed(Tail(q), name)

RECURSIVE SearchParamsSet(_, _, _)
SearchParamsSet(q, name, value) ==
    IF q = <<>> THEN << <<name, value>> >>
    ELSE IF Head(q)[1] = name THEN << <<name, value>> >> \o DropNamed(Tail(q), name)
    ELSE <<Head(q)>> \o SearchParamsSet(Tail(q), name, value)

\* ---- platform: Headers ----
\* header names are case-insensitive: Headers keeps them in lower case
Lower(name) ==
    CASE name = "Authorization" -> "authorization"
      [] name = "Content-Type"  -> "content-type"
      [] name = "X-Test"        -> "x-test"
      [] name = "X-Api-Key"     -> "x-api-key"
      [] OTHER                  -> name

\* a header name is a token: no space in it
ValidHeaderName(name) == name # "bad name"

InvalidHeader == [isError |-> TRUE, message |-> "Invalid name"]

\* new Headers(record), for records whose names differ beyond their case
NewHeaders(h) ==
    [n \in {Lower(k) : k \in DOMAIN h} |-> h[CHOOSE k \in DOMAIN h : Lower(k) = n]]

\* headers.set(name, value)
HeadersSet(h, name, value) ==
    [n \in DOMAIN h \cup {Lower(name)} |-> IF n = Lower(name) THEN value ELSE h[n]]

\* ---- platform: btoa ----
\* btoa throws on a character outside Latin-1
Latin1(str) == str # "\\u20AC"

InvalidCharacter ==
    [isError |-> TRUE, message |-> "The string to be encoded contains characters outside of the Latin1 range."]

\* the base64 text of username:password, kept symbolic
Btoa(username, password) == <<"base64", username, ":", password>>

\* ---- platform: strings, scanned character by character ----
\* s[i], "" outside the string
At(s, i) == IF i \in 1..Len(s) THEN SubSeq(s, i, i) ELSE ""

\* s.slice(i - 1, j), "" when the range leaves the string
Slice(s, i, j) == IF 1 <= i /\ i <= j /\ j <= Len(s) THEN SubSeq(s, i, j) ELSE ""

\* \s
Whitespace == {" ", "\t", "\n", "\r"}

\* ['"]
Quotes == {"'", "\""}

\* s.trim()
Trim(s) ==
    LET kept == {i \in 1..Len(s) : At(s, i) \notin Whitespace}
    IN  IF kept = {} THEN ""
        ELSE SubSeq(s, CHOOSE i \in kept : \A k \in kept : i <= k,
                       CHOOSE j \in kept : \A k \in kept : k <= j)

\* s.split(sep) for a separator of one character
RECURSIVE Split(_, _)
Split(s, sep) ==
    LET breaks == {i \in 1..Len(s) : At(s, i) = sep}
    IN  IF breaks = {} THEN <<s>>
        ELSE LET first == CHOOSE i \in breaks : \A k \in breaks : i <= k
             IN  <<Slice(s, 1, first - 1)>> \o Split(SubSeq(s, first + 1, Len(s)), sep)

\* ---- platform: JSON.parse, Object.entries, String.split of the bodies ----
BodyObject == "{\"a\":\"1\"}"
BodyPairList == "[{\"key\":\"a\",\"value\":\"1\"}]"
BodyLinesText == "a=1\nb=2\nc"
BodyNull == "null"
BodyPlain == "hello"
BodyNumber == "5"
BodyEquals == "t=a=b"

Bodies == {"", BodyPlain, BodyLinesText, BodyObject, BodyPairList, BodyNull}

\* Object.entries(JSON.parse(b)) with each value turned into String(value);
\* threw: JSON.parse threw a SyntaxError, or Object.entries a TypeError (null)
ParsedEntries(b) ==
    CASE b = BodyObject   -> [threw |-> FALSE, entries |-> << <<"a", "1">> >>]
      [] b = BodyPairList -> [threw |-> FALSE, entries |-> << <<"0", "[object Object]">> >>]
      [] b = BodyNumber   -> [threw |-> FALSE, entries |-> <<>>]
      [] OTHER            -> [threw |-> TRUE]

\* b.split('\n') and, of each line, line.split('=')
SplitLines(b) ==
    LET lines == Split(b, "\n")
    IN  [i \in 1..Len(lines) |-> Split(lines[i], "=")]

\* const [key, value] = parts; if (key && value) append(key.trim(), value.trim())
RECURSIVE LineFields(_)
LineFields(lines) ==
    IF lines = <<>> THEN <<>>
    ELSE LET parts == Head(lines)
         IN  (IF Len(parts) >= 2 /\ parts[1] # "" /\ parts[2] # ""
              THEN << <<Trim(parts[1]), Trim(parts[2])>> >> ELSE <<>>)
             \o LineFields(Tail(lines))

\* the try/catch that fills formData: JSON first, lines when that throws
FormFields(b) ==
    IF ParsedEntries(b).threw THEN LineFields(SplitLines(b))
    ELSE ParsedEntries(b).entries

\* ---- the synchronous part of the try block, lines 8-98 ----
BodyMethods == {"POST", "PUT", "PATCH"}

\* the Authorization header (or api-key header) step, lines 29-48
ApplyAuth(headers, auth) ==
    IF auth = NoValue THEN [threw |-> FALSE, headers |-> headers]
    ELSE CASE auth.type = "bearer" ->
                IF auth.token # ""
                THEN [threw |-> FALSE,
                      headers |-> HeadersSet(headers, "Authorization", <<"Bearer ", auth.token>>)]
                ELSE [threw |-> FALSE, headers |-> headers]
           [] auth.type = "basic" ->
                IF auth.username # "" /\ auth.password # ""
                THEN IF Latin1(auth.username) /\ Latin1(auth.password)
                     THEN [threw |-> FALSE,
                           headers |-> HeadersSet(headers, "Authorization",
                                           <<"Basic ", Btoa(auth.username, auth.password)>>)]
                     ELSE [threw |-> TRUE, error |-> InvalidCharacter]
                ELSE [threw |-> FALSE, headers |-> headers]
           [] auth.type = "api-key" ->
                IF auth.key # "" /\ auth.value # ""
                THEN IF ValidHeaderName(auth.key)
                     THEN [threw |-> FALSE, headers |-> HeadersSet(headers, auth.key, auth.value)]
                     ELSE [threw |-> TRUE, error |-> InvalidHeader]
                ELSE [threw |-> FALSE, headers |-> headers]
           [] OTHER -> [threw |-> FALSE, headers |-> headers]

\* the body step, lines 56-98: the body and the headers after it
\* a body step that does not look at the method
ApplyBodyAnyMethod(headers, cfg) ==
    IF cfg.body # ""
    THEN CASE cfg.bodyType = "raw" ->
                [headers |-> headers, body |-> [kind |-> "raw", text |-> cfg.body]]
           [] cfg.bodyType = "x-www-form-urlencoded" ->
                [headers |-> HeadersSet(headers, "Content-Type", "application/x-www-form-urlencoded"),
                 body |-> [kind |-> "urlencoded", fields |-> FormFields(cfg.body)]]
           [] cfg.bodyType = "form-data" ->
                [headers |-> headers,
                 body |-> [kind |-> "formdata", fields |-> FormFields(cfg.body)]]
           [] OTHER -> [headers |-> headers, body |-> NoValue]
    ELSE [headers |-> headers, body |-> NoValue]

ApplyBody(headers, cfg) ==
    IF cfg.method \in BodyMethods /\ cfg.body # ""
    THEN CASE cfg.bodyType = "raw" ->
                [headers |-> headers, body |-> [kind |-> "raw", text |-> cfg.body]]
           [] cfg.bodyType = "x-www-form-urlencoded" ->
                [headers |-> HeadersSet(headers, "Content-Type", "application/x-www-form-urlencoded"),
                 body |-> [kind |-> "urlencoded", fields |-> FormFields(cfg.body)]]
           [] cfg.bodyType = "form-data" ->
                [headers |-> headers,
                 body |-> [kind |-> "formdata", fields |-> FormFields(cfg.body)]]
           [] OTHER -> [headers |-> headers, body |-> NoValue]
    ELSE [headers |-> headers, body |-> NoValue]

\* the url step, lines 9-23
BuildUrl(cfg, st) ==
    IF ~UrlTable(cfg.url).ok THEN [threw |-> TRUE, error |-> InvalidURL]
    ELSE LET parsed == UrlTable(cfg.url)
             url == AppendParams([base |-> parsed.base, query |-> parsed.query], cfg.params)
         IN  IF st.enableProxy = "true" /\ st.proxyUrl \notin {"null", ""}
             THEN IF ~UrlTable(st.proxyUrl).ok THEN [threw |-> TRUE, error |-> InvalidURL]
                  ELSE LET proxy == UrlTable(st.proxyUrl)
                       IN  [threw |-> FALSE,
                            url |-> [base |-> proxy.base,
                                     query |-> SearchParamsSet(proxy.query, "url", url)]]
             ELSE [threw |-> FALSE, url |-> url]

\* everything up to the call of fetch: either a value thrown into the catch
\* clause, or the arguments of fetch
BuildRequest(cfg, st) ==
    LET u == BuildUrl(cfg, st)
    IN  IF u.threw THEN [threw |-> TRUE, error |-> u.error]
        ELSE IF \E k \in DOMAIN cfg.headers : ~ValidHeaderName(k)
        THEN [threw |-> TRUE, error |-> InvalidHeader]
        ELSE LET a == ApplyAuth(NewHeaders(cfg.headers), cfg.auth)
             IN  IF a.threw THEN [threw |-> TRUE, error |-> a.error]
                 ELSE LET b == ApplyBody(a.headers, cfg)
                      IN  [threw |-> FALSE, url |-> u.url, method |-> cfg.method,
                           headers |-> b.headers, body |-> b.body]

\* ---- the catch clause, lines 122-133 ----
\* a catch clause that lets the failure through to the caller
CatchRethrow(error, elapsed) == [settles |-> "rejected", value |-> error]

Catch(error, elapsed) ==
    [settles |-> "resolved",
     value |-> [status |-> 0,
                statusText |-> "Network Error",
                headers |-> <<>>,
                body |-> IF error.isError THEN error.message ELSE "Unknown error occurred",
                responseTime |-> elapsed,
                responseSize |-> 0]]

\* ---- the success path, lines 104-121 ----
\* new Blob([body]).size: the UTF-8 length of the bodies of the model, and
\* of the messages of the errors of the model
Utf8Size(body) ==
    CASE body = ""       -> 0
      [] body = "ok"     -> 2
      [] body = "\\u00E9" -> 2
      [] body = "Failed to fetch" -> 15
      [] body = "Invalid URL" -> 11
      [] body = "Invalid name" -> 12
      [] body = "Unknown error occurred" -> 22
      [] body = "The string to be encoded contains characters outside of the Latin1 range." -> 73
      [] OTHER           -> 1

\* response.headers.forEach((value, key) => responseHeaders[key] = value):
\* a mapping in which the last value seen under a name stays
FlattenHeaders(pairs) ==
    [k \in {pairs[i][1] : i \in 1..Len(pairs)} |->
        pairs[CHOOSE i \in 1..Len(pairs) :
                 /\ pairs[i][1] = k
                 /\ \A j \in 1..Len(pairs) : pairs[j][1] = k => j <= i][2]]

\* the record returned at lines 114-121
SuccessRecord(res, body, responseTime) ==
    [status |-> res.status,
     statusText |-> res.statusText,
     headers |-> FlattenHeaders(res.headers),
     body |-> body,
     responseTime |-> responseTime,
     responseSize |-> Utf8Size(body)]

\* ---- inputs ----
\* config.params as its entries; the last one names a key the url of the
\* model already has in its query
ParamsOfModel == { <<>>, << <<"b", "2">> >>, << <<"a", "9">>, <<"b", "2">> >> }

HeadersOfModel ==
    { <<>>,
      [k \in {"X-Test"} |-> "1"],
      [k \in {"Authorization"} |-> "mine"],
      [k \in {"bad name"} |-> "1"] }

Auth(type, token, username, password, key, value) ==
    [type |-> type, token |-> token, username |-> username, password |-> password,
     key |-> key, value |-> value]

AuthsOfModel ==
    { NoValue,
      Auth("none", "", "", "", "", ""),
      Auth("bearer", "abc", "", "", "", ""),
      Auth("bearer", "", "", "", "", ""),
      Auth("bearer", "abc", "user", "pw", "X-Api-Key", "k1"),
      Auth("basic", "", "user", "pw", "", ""),
      Auth("basic", "", "\\u20AC", "pw", "", ""),
      Auth("api-key", "", "", "", "X-Api-Key", "k1") }

Configs ==
    [method : {"GET", "POST", "DELETE"},
     url : Urls,
     headers : HeadersOfModel,
     params : ParamsOfModel,
     body : {"", BodyPlain, BodyObject},
     bodyType : {"raw", "form-data", "x-www-form-urlencoded"},
     auth : AuthsOfModel]

\* localStorage.getItem of the two settings; "null" stands for null
Storages ==
    { [enableProxy |-> "null", proxyUrl |-> "null"],
      [enableProxy |-> "true", proxyUrl |-> "https://proxy.test/?url=old"],
      [enableProxy |-> "true", proxyUrl |-> "proxy" ] }

\* what fetch and response.text() can reject with: the network failure of the
\* platform, an Error without a message, a value that is no Error
Rejections ==
    { [isError |-> TRUE, message |-> "Failed to fetch"],
      [isError |-> TRUE, message |-> ""],
      [isError |-> FALSE, message |-> "a thrown string"] }

ResponsesOfModel ==
    [status : {200, 404},
     statusText : {"OK"},
     headers : { <<>>, << <<"x-a", "1">>, <<"x-a", "2">> >> },
     text : {"", "ok", "\\u00E9"}]

\* ---- the call ----
SendInit ==
    /\ WsIdle
    /\ TabIdle
    /\ DeleteIdle
    /\ CurlIdle
    /\ InterpIdle
    /\ PostmanIdle
    /\ DbEmpty
    /\ TransferIdle
    /\ AppIdle
    /\ GenIdle
    /\ spc = "idle"
    /\ config \in Configs
    /\ storage \in Storages
    /\ now = 0
    /\ startTime = 0
    /\ request = NoValue
    /\ fetched = NoValue
    /\ thrown = NoError
    /\ settled = "pending"
    /\ response = NoValue

\* the catch clause runs on error and the promise settles
Caught(error) ==
    /\ thrown' = error
    /\ settled' = Catch(error, now - startTime).settles
    /\ response' = Catch(error, now - startTime).value
    /\ spc' = "returned"

\* lines 5-101: from the call to the await of fetch
SendRequestCall ==
    /\ spc = "idle"
    /\ startTime' = now
    /\ LET built == BuildRequest(config, storage)
       IN  IF built.threw
           THEN /\ thrown' = built.error
                /\ settled' = Catch(built.error, 0).settles
                /\ response' = Catch(built.error, 0).value
                /\ spc' = "returned"
                /\ UNCHANGED request
           ELSE /\ request' = [url |-> built.url, method |-> built.method,
                               headers |-> built.headers, body |-> built.body]
                /\ spc' = "fetch"
                /\ UNCHANGED <<thrown, settled, response>>
    /\ UNCHANGED <<config, storage, now, fetched>>
    /\ UNCHANGED exceptSend

\* time passes while the call awaits
Tick ==
    /\ spc \in {"fetch", "text"}
    /\ now < MaxClock
    /\ now' = now + 1
    /\ UNCHANGED <<spc, config, storage, startTime, request, fetched, thrown,
                   settled, response>>
    /\ UNCHANGED exceptSend

\* line 101-102: fetch resolves with a response
FetchResolves ==
    /\ spc = "fetch"
    /\ \E res \in ResponsesOfModel :
          fetched' = [response |-> res, responseTime |-> now - startTime]
    /\ spc' = "text"
    /\ UNCHANGED <<config, storage, now, startTime, request, thrown, settled, response>>
    /\ UNCHANGED exceptSend

\* line 101: fetch rejects
FetchRejects ==
    /\ spc = "fetch"
    /\ \E error \in Rejections : Caught(error)
    /\ UNCHANGED <<config, storage, now, startTime, request, fetched>>
    /\ UNCHANGED exceptSend

\* lines 105-121: response.text() resolves and the record is returned
TextResolves ==
    /\ spc = "text"
    /\ response' = SuccessRecord(fetched.response, fetched.response.text,
                                 fetched.responseTime)
    /\ settled' = "resolved"
    /\ spc' = "returned"
    /\ UNCHANGED <<config, storage, now, startTime, request, fetched, thrown>>
    /\ UNCHANGED exceptSend

\* line 105: response.text() rejects
TextRejects ==
    /\ spc = "text"
    /\ \E error \in Rejections : Caught(error)
    /\ UNCHANGED <<config, storage, now, startTime, request, fetched>>
    /\ UNCHANGED exceptSend

SendNext ==
    \/ SendRequestCall
    \/ Tick
    \/ FetchResolves
    \/ FetchRejects
    \/ TextResolves
    \/ TextRejects

SpecSend == SendInit /\ [][SendNext]_vars

-----------------------------------------------------------------------------
(* Claims about sendRequest, checked under SpecSend                        *)

\* C1: sendRequest never rejects, and whenever something failed inside it the
\* promise resolves to status 0, "Network Error" and no headers.
C1_NeverRejects ==
    /\ settled # "rejected"
    /\ spc = "returned" =>
          /\ settled = "resolved"
          /\ thrown # NoError =>
                /\ response.status = 0
                /\ response.statusText = "Network Error"
                /\ DOMAIN response.headers = {}

\* a call has returned after fetch or response.text() rejected
C1_Witness ==
    /\ spc = "returned"
    /\ thrown \in Rejections
    /\ request # NoValue

\* C2: every failure caught yields status 0, a non-empty body describing the
\* error, and responseTime >= 0.
C2_FailureShape ==
    (spc = "returned" /\ thrown # NoError) =>
        /\ response.status = 0
        /\ response.body # ""
        /\ response.responseTime >= 0

-----------------------------------------------------------------------------
(* PostmanService                                                          *)

\* ---- JavaScript values ----
\* o.f where the code expects an object or a list: undefined (NoValue, falsy)
\* when o has no such property
Get(o, f) == IF f \in DOMAIN o THEN o[f] ELSE NoValue

\* o.f where the code expects a string and only tests it for truth: a missing
\* property reads as the empty string, falsy like undefined
GetString(o, f) == IF f \in DOMAIN o THEN o[f] ELSE ""

\* an Array, as JSON.parse and Array.prototype.map build it
Array(items) == [kind |-> "array", items |-> items]

\* v.each is callable on the property lists of the Postman SDK; an Array has
\* no such method, and calling it throws a TypeError
HasEach(v) == v.kind = "propertyList"

\* the record a with the properties of b added or overwritten
Assign(a, b) ==
    [f \in DOMAIN a \cup DOMAIN b |-> IF f \in DOMAIN b THEN b[f] ELSE a[f]]

\* ---- export direction ----
extractProtocol(url) ==
    IF UrlTable(url).ok THEN IF UrlTable(url).protocol = "https:" THEN "https" ELSE "http"
    ELSE "https"

extractHost(url) ==
    IF UrlTable(url).ok THEN UrlTable(url).hostname ELSE <<"example", "com">>

extractPath(url) ==
    IF UrlTable(url).ok THEN UrlTable(url).pathname ELSE <<>>

\* JSON.parse of a body: threw on a SyntaxError, else the value, which the
\* model keeps as its JSON text
ParseJson(b) ==
    IF b \in {BodyObject, BodyPairList, BodyNull}
    THEN [threw |-> FALSE, value |-> [kind |-> "json", json |-> b]]
    ELSE [threw |-> TRUE]

\* JSON.stringify(v || []) of a value ParseJson gave
StringifyOrEmptyList(v) ==
    IF v = NoValue \/ v.json = BodyNull THEN "[]" ELSE v.json

\* lines 189-222: the body property, if any
PostmanBody(req) ==
    IF req.body = "" THEN <<>>
    ELSE CASE req.bodyType = "raw" ->
                [f \in {"body"} |-> [mode |-> "raw", raw |-> req.body]]
           [] req.bodyType = "form-data" ->
                IF ParseJson(req.body).threw
                THEN [f \in {"body"} |-> [mode |-> "raw", raw |-> req.body]]
                ELSE [f \in {"body"} |->
                         [mode |-> "formdata", formdata |-> ParseJson(req.body).value]]
           [] req.bodyType = "x-www-form-urlencoded" ->
                IF ParseJson(req.body).threw
                THEN [f \in {"body"} |-> [mode |-> "raw", raw |-> req.body]]
                ELSE [f \in {"body"} |->
                         [mode |-> "urlencoded", urlencoded |-> ParseJson(req.body).value]]
           [] OTHER -> <<>>

Credential(key, value) == [key |-> key, value |-> value, type |-> "string"]

\* lines 225-248: the auth property, if any
PostmanAuth(req) ==
    IF req.auth = NoValue THEN <<>>
    ELSE CASE req.auth.type = "bearer" ->
                [f \in {"auth"} |->
                    [type |-> "bearer",
                     bearer |-> Array(<<Credential("token", req.auth.token)>>)]]
           [] req.auth.type = "basic" ->
                [f \in {"auth"} |->
                    [type |-> "basic",
                     basic |-> Array(<<Credential("username", req.auth.username),
                                       Credential("password", req.auth.password)>>)]]
           [] req.auth.type = "api-key" ->
                [f \in {"auth"} |->
                    [type |-> "apikey",
                     apikey |-> Array(<<Credential("key", req.auth.key),
                                        Credential("value", req.auth.value)>>)]]
           [] OTHER -> <<>>

convertAppRequestToPostmanItem(req) ==
    [name |-> req.name,
     request |->
        Assign(Assign(
            [method |-> req.method,
             header |-> Array([i \in 1..Len(req.headers) |->
                                  [key |-> req.headers[i][1], value |-> req.headers[i][2],
                                   type |-> "text"]]),
             url |-> [raw |-> req.url,
                      protocol |-> extractProtocol(req.url),
                      host |-> Array(extractHost(req.url)),
                      path |-> Array(extractPath(req.url)),
                      query |-> Array([i \in 1..Len(req.params) |->
                                          [key |-> req.params[i][1],
                                           value |-> req.params[i][2]]])]],
            PostmanBody(req)), PostmanAuth(req))]

\* seq.filter(test) and seq.map(f) of the export
RECURSIVE RequestsOf(_, _)
RequestsOf(requests, collectionId) ==
    IF requests = <<>> THEN <<>>
    ELSE (IF Head(requests).collectionId = collectionId THEN <<Head(requests)>> ELSE <<>>)
         \o RequestsOf(Tail(requests), collectionId)

PostmanCollectionOf(collection, requests) ==
    LET collectionRequests == RequestsOf(requests, collection.id)
    IN  [info |-> [name |-> collection.name,
                   description |-> [content |-> collection.description,
                                    type |-> "text/plain"],
                   schema |-> "https://schema.getpostman.com/json/collection/v2.1.0/collection.json"],
         item |-> Array([i \in 1..Len(collectionRequests) |->
                            convertAppRequestToPostmanItem(collectionRequests[i])])]

\* the returned string: the JSON text of one document, or of the list of them
exportToPostman(collections, requests) ==
    LET postmanCollections ==
            [i \in 1..Len(collections) |-> PostmanCollectionOf(collections[i], requests)]
    IN  IF Len(postmanCollections) = 1
        THEN [kind |-> "jsonText", of |-> postmanCollections[1]]
        ELSE [kind |-> "jsonText", of |-> Array(postmanCollections)]

\* JSON.parse of a string JSON.stringify wrote: objects and Arrays of strings
\* come back as plain objects and Arrays
JsonParse(str) == str.of

\* ---- import direction ----
\* lines 89-110: the auth of the imported request
ImportedAuth(postmanRequest) ==
    LET auth == Get(postmanRequest, "auth")
        \* (auth as any).<list>?.[i]?.value || ''
        ValueAt(list, i) ==
            IF list = NoValue \/ i > Len(list.items) THEN ""
            ELSE GetString(list.items[i], "value")
    IN  IF auth = NoValue THEN NoValue
        ELSE CASE GetString(auth, "type") = "bearer" ->
                    Auth("bearer", ValueAt(Get(auth, "bearer"), 1), "", "", "", "")
               [] GetString(auth, "type") = "basic" ->
                    Auth("basic", "", ValueAt(Get(auth, "basic"), 1),
                         ValueAt(Get(auth, "basic"), 2), "", "")
               [] GetString(auth, "type") = "apikey" ->
                    Auth("api-key", "", "", "", ValueAt(Get(auth, "apikey"), 1),
                         ValueAt(Get(auth, "apikey"), 2))
               [] OTHER -> NoValue

\* lines 72-87: body and bodyType of the imported request
ImportedBody(postmanRequest) ==
    LET body == Get(postmanRequest, "body")
    IN  IF body = NoValue THEN [body |-> "", bodyType |-> "raw"]
        ELSE CASE GetString(body, "mode") = "raw" ->
                    [body |-> GetString(body, "raw"), bodyType |-> "raw"]
               [] GetString(body, "mode") = "formdata" ->
                    [body |-> StringifyOrEmptyList(Get(body, "formdata")),
                     bodyType |-> "form-data"]
               [] GetString(body, "mode") = "urlencoded" ->
                    [body |-> StringifyOrEmptyList(Get(body, "urlencoded")),
                     bodyType |-> "x-www-form-urlencoded"]
               [] OTHER -> [body |-> "", bodyType |-> "raw"]

\* list.each(entry => { if (entry.key && entry.value) map[entry.key] = entry.value })
\* on a value that has the method: the pairs, a later one overwriting an
\* earlier one of the same key
RECURSIVE EachPair(_)
EachPair(items) ==
    IF items = <<>> THEN <<>>
    ELSE LET rest == EachPair(SubSeq(items, 1, Len(items) - 1))
             last == items[Len(items)]
             key == GetString(last, "key")
             value == GetString(last, "value")
         IN  IF key = "" \/ value = "" THEN rest
             ELSE IF \E i \in 1..Len(rest) : rest[i][1] = key
             THEN [i \in 1..Len(rest) |-> IF rest[i][1] = key THEN <<key, value>> ELSE rest[i]]
             ELSE rest \o << <<key, value>> >>

\* url?.toString() || '' of the url object JSON.parse gave: Object.prototype's
ObjectToString == "[object Object]"

\* String.prototype.toUpperCase on a method name
ToUpperCase(method) ==
    CASE method = "get"  -> "GET"
      [] method = "post" -> "POST"
      [] OTHER           -> method

IsNotAFunction == [isError |-> TRUE, message |-> "each is not a function"]

\* lines 49-128; id is the fresh id of line 113
convertPostmanRequestToAppRequest(item, collectionId, id) ==
    LET postmanRequest == item.request
        headerList == Get(postmanRequest, "headers")
        url == Get(postmanRequest, "url")
        queryList == IF url = NoValue THEN NoValue ELSE Get(url, "query")
    IN  IF headerList # NoValue /\ ~HasEach(headerList)
        THEN [threw |-> TRUE, error |-> IsNotAFunction]
        ELSE IF queryList # NoValue /\ ~HasEach(queryList)
        THEN [threw |-> TRUE, error |-> IsNotAFunction]
        ELSE [threw |-> FALSE,
              value |->
                 [id |-> id,
                  name |-> IF GetString(item, "name") # "" THEN item.name
                           ELSE "Unnamed Request",
                  method |-> ToUpperCase(IF GetString(postmanRequest, "method") # ""
                                         THEN postmanRequest.method ELSE "GET"),
                  url |-> IF url = NoValue THEN "" ELSE ObjectToString,
                  headers |-> IF headerList = NoValue THEN <<>>
                              ELSE EachPair(headerList.items),
                  params |-> IF queryList = NoValue THEN <<>>
                             ELSE EachPair(queryList.items),
                  body |-> ImportedBody(postmanRequest).body,
                  bodyType |-> ImportedBody(postmanRequest).bodyType,
                  auth |-> ImportedAuth(postmanRequest),
                  collectionId |-> collectionId]]

ImportFailed ==
    [isError |-> TRUE,
     message |-> "Failed to import Postman collection. Please check the file format."]

\* items.forEach(item => { if (item.request) requests.push(convert(item)) }):
\* the requests, or the first exception a conversion threw
RECURSIVE ConvertItems(_, _, _)
ConvertItems(items, collectionId, ids) ==
    IF items = <<>> THEN [threw |-> FALSE, value |-> <<>>]
    ELSE IF Get(Head(items), "request") = NoValue
    THEN ConvertItems(Tail(items), collectionId, ids)
    ELSE LET first == convertPostmanRequestToAppRequest(Head(items), collectionId, Head(ids))
             rest == ConvertItems(Tail(items), collectionId, Tail(ids))
         IN  IF first.threw THEN first
             ELSE IF rest.threw THEN rest
             ELSE [threw |-> FALSE, value |-> <<first.value>> \o rest.value]

\* lines 7-44: how the promise settles; time is Date.now() and ids the fresh
\* request ids
\* an import that insists on a list of items
importCollectionStrict(postmanJson, time, ids) ==
    IF postmanJson = NoValue \/ Get(postmanJson, "info") = NoValue
       \/ Get(postmanJson, "item") = NoValue \/ Get(postmanJson, "item").kind # "array"
    THEN [ok |-> FALSE, error |-> ImportFailed]
    ELSE [ok |-> TRUE,
          collection |-> [id |-> time, name |-> "Imported Collection",
                          description |-> "", parentId |-> ""],
          requests |-> <<>>]

importCollection(postmanJson, time, ids) ==
    IF postmanJson = NoValue \/ Get(postmanJson, "info") = NoValue
    THEN [ok |-> FALSE, error |-> ImportFailed]
    ELSE LET info == postmanJson.info
             collection ==
                 [id |-> time,
                  name |-> IF GetString(info, "name") # "" THEN info.name
                           ELSE "Imported Collection",
                  description |-> GetString(Get(info, "description"), "content"),
                  parentId |-> ""]
             item == Get(postmanJson, "item")
             converted ==
                 IF item # NoValue /\ item.kind = "array"
                 THEN ConvertItems(item.items, collection.id, ids)
                 ELSE [threw |-> FALSE, value |-> <<>>]
         IN  IF converted.threw THEN [ok |-> FALSE, error |-> ImportFailed]
             ELSE [ok |-> TRUE, collection |-> collection, requests |-> converted.value]

\* ---- inputs ----
CollectionsOfModel ==
    { [id |-> "c1", name |-> "First", description |-> "about"],
      [id |-> "c2", name |-> "Second", description |-> ""] }

HeaderListsOfModel ==
    { <<>>, << <<"X-Test", "1">> >>, << <<"X-Test", "1">>, <<"Accept", "text/plain">> >> }

RequestsOfModel ==
    [id : {"r1"},
     name : {"get a"},
     method : {"GET", "POST"},
     url : Urls,
     headers : HeaderListsOfModel,
     params : ParamsOfModel,
     body : {"", BodyPlain, BodyObject},
     bodyType : {"raw", "form-data", "x-www-form-urlencoded"},
     auth : AuthsOfModel \ {Auth("basic", "", "\\u20AC", "pw", "", "")},
     collectionId : {"c1", "c2"}]

\* documents that did not come from exportToPostman: null, one without info,
\* one without item, one whose item is an object, and three in the Postman
\* v2.1 layout: a request that lists its headers under header, one whose url
\* has a query list, one whose url has an empty query list, and a collection
\* of two requests, the first with a raw body and bearer auth
HeaderEntries ==
    Array(<< [key |-> "X-Test", value |-> "1"],
             [key |-> "X-Empty"],
             [value |-> "orphan"],
             [key |-> "Accept", value |-> "text/plain"] >>)

QueryEntries == Array(<< [key |-> "a", value |-> "1"], [key |-> "flag"] >>)

ForeignDocuments ==
    { NoValue,
      [item |-> Array(<<>>)],
      [info |-> [name |-> "Team"]],
      [info |-> [name |-> "Team"], item |-> [kind |-> "object"]],
      [info |-> [name |-> "Team"],
       item |-> Array(<< [name |-> "list",
                          request |-> [method |-> "get", header |-> HeaderEntries]] >>)],
      [info |-> [name |-> "Team"],
       item |-> Array(<< [name |-> "search",
                          request |-> [method |-> "get",
                                       url |-> [raw |-> "https://x.test/p?a=1",
                                                query |-> QueryEntries]]] >>)],
      [info |-> [name |-> "Team"],
       item |-> Array(<< [name |-> "plain",
                          request |-> [method |-> "get",
                                       url |-> [raw |-> "https://x.test/a",
                                                query |-> Array(<<>>)]]] >>)],
      [info |-> [name |-> "Team"],
       item |-> Array(<< [name |-> "login",
                          request |-> [method |-> "post",
                                       url |-> [raw |-> "https://x.test/a"],
                                       body |-> [mode |-> "raw", raw |-> BodyPlain],
                                       auth |-> [type |-> "bearer",
                                                 bearer |-> Array(<< [key |-> "token",
                                                                      value |-> "abc"] >>)]]],
                         [name |-> "ping", request |-> [method |-> "get"]] >>)] }

\* the ids line 113 draws
FreshIds == <<"1700000000000k3j9x2m1a", "1700000000000p0q8w7e6r">>

PostmanInit ==
    /\ WsIdle
    /\ TabIdle
    /\ DeleteIdle
    /\ CurlIdle
    /\ InterpIdle
    /\ SendIdle
    /\ DbEmpty
    /\ TransferIdle
    /\ AppIdle
    /\ GenIdle
    /\ ppc = "ready"
    /\ pmCollections \in
          { <<c>> : c \in CollectionsOfModel }
          \cup { <<c, d>> : c \in {cc \in CollectionsOfModel : cc.id = "c1"},
                            d \in {cc \in CollectionsOfModel : cc.id = "c2"} }
    /\ pmRequests \in { <<>> } \cup { <<r>> : r \in RequestsOfModel }
    /\ pmText = NoValue
    /\ pmResult = NoValue
    /\ pmCreated = 0

\* PostmanService.exportToPostman(collections, requests)
ExportToPostman ==
    /\ ppc = "ready"
    /\ pmText' = exportToPostman(pmCollections, pmRequests)
    /\ ppc' = "exported"
    /\ UNCHANGED <<pmCollections, pmRequests, pmResult, pmCreated>>
    /\ UNCHANGED exceptPostman

\* PostmanService.importCollection(JSON.parse(text)) on the exported text
ImportCollection ==
    /\ ppc = "exported"
    /\ pmResult' = importCollection(JsonParse(pmText), "1700000000000", FreshIds)
    /\ ppc' = "imported"
    /\ UNCHANGED <<pmCollections, pmRequests, pmText, pmCreated>>
    /\ UNCHANGED exceptPostman

\* PostmanImportExport: a file the user picked is parsed and imported
ImportDocument ==
    /\ ppc = "ready"
    /\ \E doc \in ForeignDocuments :
          /\ pmText' = [kind |-> "jsonText", of |-> doc]
          /\ pmResult' = importCollection(doc, "1700000000000", FreshIds)
    /\ ppc' = "imported file"
    /\ UNCHANGED <<pmCollections, pmRequests, pmCreated>>
    /\ UNCHANGED exceptPostman

\* ---- PostmanImportExport.handleFileUpload after the import, lines 30-44 ----
\* the ids uuidv4() returns, in the order of the calls
Uuids == <<"7c9e6679", "1b2f8a30", "93aa41c5">>

\* what the handler leaves alone
exceptUpload == <<interpVars, sendVars, transferVars, appVars, genVars, dbEnvironments, curlVars, deleteVars, tabVars, wsVars>>

\* CollectionService.createCollection(name, description), collectionService.ts
\* lines 6-19: the record it adds
CreatedCollection(name, description) ==
    [id |-> Uuids[1], name |-> name, description |-> description]

\* RequestService.createRequest(name, method, url, collectionId),
\* collectionService.ts lines 81-105: the record it adds; it has no body
\* and no auth
CreatedRequest(n, name, method, url, collectionId) ==
    [id |-> Uuids[n + 1], name |-> name, method |-> method, url |-> url,
     headers |-> <<>>, params |-> <<>>, body |-> "", bodyType |-> "raw",
     auth |-> NoValue, collectionId |-> collectionId]

\* line 31: the collection is created under a new id
UploadCreatesCollection ==
    /\ ppc = "imported file"
    /\ pmResult.ok
    /\ dbCollections' = dbCollections \cup
            {CreatedCollection(pmResult.collection.name, pmResult.collection.description)}
    /\ ppc' = "creating requests"
    /\ UNCHANGED <<pmCollections, pmRequests, pmText, pmResult, pmCreated, dbRequests>>
    /\ UNCHANGED exceptUpload

\* lines 34-36: one turn of the loop over the imported requests
UploadCreatesRequest ==
    /\ ppc = "creating requests"
    /\ pmCreated < Len(pmResult.requests)
    /\ LET imported == pmResult.requests[pmCreated + 1]
       IN  dbRequests' = dbRequests \cup
               {CreatedRequest(pmCreated + 1, imported.name, imported.method, imported.url,
                               pmResult.collection.id)}
    /\ pmCreated' = pmCreated + 1
    /\ UNCHANGED <<ppc, pmCollections, pmRequests, pmText, pmResult, dbCollections>>
    /\ UNCHANGED exceptUpload

\* line 38: the loop is over and the handler reports success
UploadSucceeds ==
    /\ ppc = "creating requests"
    /\ pmCreated = Len(pmResult.requests)
    /\ ppc' = "uploaded"
    /\ UNCHANGED <<pmCollections, pmRequests, pmText, pmResult, pmCreated>>
    /\ UNCHANGED exceptPostman

\* lines 39-41: the import rejected and the handler shows the message
UploadFails ==
    /\ ppc = "imported file"
    /\ ~pmResult.ok
    /\ ppc' = "upload failed"
    /\ UNCHANGED <<pmCollections, pmRequests, pmText, pmResult, pmCreated>>
    /\ UNCHANGED exceptPostman

PostmanNext ==
    \/ ExportToPostman
    \/ ImportCollection
    \/ ImportDocument
    \/ UploadCreatesCollection
    \/ UploadCreatesRequest
    \/ UploadSucceeds
    \/ UploadFails

SpecPostman == PostmanInit /\ [][PostmanNext]_vars

-----------------------------------------------------------------------------
(* Claims about PostmanService, checked under SpecPostman                  *)

PairSet(pairs) == {pairs[i] : i \in 1..Len(pairs)}

\* the same auth type and credentials; no auth and type none are the same
SameAuth(a, b) ==
    LET Norm(x) == IF x = NoValue THEN Auth("none", "", "", "", "", "") ELSE x
    IN  Norm(a) = Norm(b)

\* C5: importing the export of one collection c with one request r of c
\* succeeds and returns exactly one request with r's method, url, header
\* pairs, raw body and auth.
C5_RoundTrip ==
    (/\ ppc = "imported"
     /\ Len(pmCollections) = 1
     /\ Len(pmRequests) = 1
     /\ pmRequests[1].collectionId = pmCollections[1].id)
    => /\ pmResult.ok
       /\ Len(pmResult.requests) = 1
       /\ LET r == pmRequests[1]
              q == pmResult.requests[1]
          IN  /\ q.method = r.method
              /\ q.url = r.url
              /\ PairSet(q.headers) = PairSet(r.headers)
              /\ r.bodyType = "raw" => q.body = r.body
              /\ SameAuth(q.auth, r.auth)

-----------------------------------------------------------------------------
(* The Dexie tables and ExportImportService                                *)

Tables == {"collections", "requests", "environments"}

Collection(id, name) == [id |-> id, name |-> name]
Request(id, name) == [id |-> id, name |-> name, collectionId |-> 1]
Environment(id, name, isActive) ==
    [id |-> id, name |-> name, variables |-> "none", isActive |-> isActive]

Ids(table) == {r.id : r \in table}

\* table.toArray(): the records in the order of the primary key
RECURSIVE ToArray(_)
ToArray(table) ==
    IF table = {} THEN <<>>
    ELSE LET first == CHOOSE r \in table : \A q \in table : r.id <= q.id
         IN  <<first>> \o ToArray(table \ {first})

\* table.bulkAdd(items) outside a transaction scope: each item whose key is
\* not in the table yet is stored, the others fail, and the promise rejects if
\* any failed; the successful ones stay stored
RECURSIVE BulkAdd(_, _)
BulkAdd(table, items) ==
    IF items = <<>> THEN [table |-> table, failed |-> FALSE]
    ELSE IF Head(items).id \in Ids(table)
    THEN [table |-> BulkAdd(table, Tail(items)).table, failed |-> TRUE]
    ELSE BulkAdd(table \cup {Head(items)}, Tail(items))

\* db[t].bulkAdd(data[t]); a document without the array passes undefined, and
\* reading its length throws
BulkAddDocument(db, data, t) ==
    IF t \notin DOMAIN data THEN [table |-> db[t], failed |-> TRUE]
    ELSE BulkAdd(db[t], data[t])

\* the three tables as one record
Db == [collections |-> dbCollections, requests |-> dbRequests,
       environments |-> dbEnvironments]

\* the tables after db[t] became table
DbWith(t, table) ==
    /\ dbCollections' = IF t = "collections" THEN table ELSE dbCollections
    /\ dbRequests' = IF t = "requests" THEN table ELSE dbRequests
    /\ dbEnvironments' = IF t = "environments" THEN table ELSE dbEnvironments

\* a variant that leaves the environments out of the export
ExportDataWithoutEnvironments(arrays) ==
    [collections |-> arrays.collections,
     requests |-> arrays.requests,
     environments |-> <<>>,
     version |-> "1.0.0",
     exportedAt |-> "2026-01-01T00:00:00.000Z"]

\* lines 21-27: the value exportData returns
ExportDataOf(arrays) ==
    [collections |-> arrays.collections,
     requests |-> arrays.requests,
     environments |-> arrays.environments,
     version |-> "1.0.0",
     exportedAt |-> "2026-01-01T00:00:00.000Z"]

\* line 80: !data.collections || !data.requests || !data.environments
InvalidFormat(data) == ~(Tables \subseteq DOMAIN data)

\* ---- inputs ----
\* the stores the flow can start from: records of distinct ids, written earlier
StoredCollections == { {Collection(i, "old") : i \in ids} : ids \in SUBSET (1..MaxRecords) }
StoredRequests == { {Request(i, "old") : i \in ids} : ids \in SUBSET (1..MaxRecords) }
StoredEnvironments ==
    UNION { { {Environment(i, "old", active = i) : i \in ids} : active \in ids \cup {0} }
            : ids \in SUBSET (1..MaxRecords) }

\* the documents handed to importData or read from a file
DocNew ==
    [collections |-> <<Collection(1, "new")>>,
     requests |-> <<Request(1, "new")>>,
     environments |-> <<Environment(1, "new", TRUE)>>,
     version |-> "1.0.0",
     exportedAt |-> "2025-12-31T00:00:00.000Z"]

DocDuplicateId ==
    [DocNew EXCEPT !.requests = <<Request(1, "new"), Request(1, "newer")>>]

Without(data, t) == [f \in DOMAIN data \ {t} |-> data[f]]

DocsOfModel == {DocNew, DocDuplicateId} \cup {Without(DocNew, t) : t \in Tables}

TransferInit ==
    /\ WsIdle
    /\ TabIdle
    /\ DeleteIdle
    /\ CurlIdle
    /\ InterpIdle
    /\ SendIdle
    /\ PostmanIdle
    /\ dbCollections \in StoredCollections
    /\ dbRequests \in StoredRequests
    /\ dbEnvironments \in StoredEnvironments
    /\ TransferIdle
    /\ AppIdle
    /\ GenIdle

\* ---- exportData ----
\* lines 12-19: the three toArray calls of Promise.all are started
CallExportData ==
    /\ xpc = "idle"
    /\ xentry' \in {"exportData", "roundTrip"}
    /\ xpc' = "exporting"
    /\ xdata' = <<>>
    /\ xpending' = Tables
    /\ xbefore' = Db
    /\ UNCHANGED <<xsettled, dbVars>>
    /\ UNCHANGED exceptTransfer

\* one toArray completes
ReadTable ==
    /\ xpc = "exporting"
    /\ \E t \in xpending :
          /\ xdata' = Assign(xdata, [f \in {t} |-> ToArray(Db[t])])
          /\ xpending' = xpending \ {t}
    /\ UNCHANGED <<xpc, xentry, xsettled, xbefore, dbVars>>
    /\ UNCHANGED exceptTransfer

\* lines 21-27: Promise.all resolved and exportData returns
ExportDataReturns ==
    /\ xpc = "exporting"
    /\ xpending = {}
    /\ xdata' = ExportDataOf(xdata)
    /\ xpc' = "exported"
    /\ UNCHANGED <<xentry, xpending, xsettled, xbefore, dbVars>>
    /\ UNCHANGED exceptTransfer

\* ---- importData ----
\* lines 30-38, entered with data: the three clear calls are started
StartImport(data) ==
    /\ xdata' = data
    /\ xpc' = "clearing"
    /\ xpending' = Tables
    /\ xbefore' = Db

\* importData(data) called with a document
CallImportData ==
    /\ xpc = "idle"
    /\ xentry' = "importData"
    /\ \E data \in DocsOfModel : StartImport(data)
    /\ UNCHANGED <<xsettled, dbVars>>
    /\ UNCHANGED exceptTransfer

\* importData(await exportData())
CallImportDataOnExport ==
    /\ xpc = "exported"
    /\ xentry = "roundTrip"
    /\ StartImport(xdata)
    /\ UNCHANGED <<xentry, xsettled, dbVars>>
    /\ UNCHANGED exceptTransfer

\* lines 62-93: importFromFile with a file holding the JSON text of data
CallImportFromFile ==
    /\ xpc = "idle"
    /\ xentry' = "importFromFile"
    /\ \E data \in DocsOfModel :
          IF InvalidFormat(data)
          THEN /\ xdata' = data
               /\ xbefore' = Db
               /\ xsettled' = "rejected"
               /\ xpc' = "done"
               /\ UNCHANGED xpending
          ELSE /\ StartImport(data)
               /\ UNCHANGED xsettled
    /\ UNCHANGED dbVars
    /\ UNCHANGED exceptTransfer

\* one clear completes
ClearTable ==
    /\ xpc = "clearing"
    /\ \E t \in xpending :
          /\ DbWith(t, {})
          /\ xpending' = xpending \ {t}
    /\ UNCHANGED <<xpc, xentry, xdata, xsettled, xbefore>>
    /\ UNCHANGED exceptTransfer

\* lines 40-45: the clears are done and the three bulkAdd calls are started
StartAdding ==
    /\ xpc = "clearing"
    /\ xpending = {}
    /\ xpc' = "adding"
    /\ xpending' = Tables
    /\ UNCHANGED <<xentry, xdata, xsettled, xbefore, dbVars>>
    /\ UNCHANGED exceptTransfer

\* one bulkAdd completes; the first one to fail rejects Promise.all, and with
\* it the import, while the others still run
BulkAddTable ==
    /\ xpc = "adding"
    /\ \E t \in xpending :
          LET added == BulkAddDocument(Db, xdata, t)
          IN  /\ DbWith(t, added.table)
              /\ xpending' = xpending \ {t}
              /\ xsettled' = IF added.failed THEN "rejected" ELSE xsettled
    /\ UNCHANGED <<xpc, xentry, xdata, xbefore>>
    /\ UNCHANGED exceptTransfer

\* every bulkAdd has completed; the import resolves unless one failed
ImportSettles ==
    /\ xpc = "adding"
    /\ xpending = {}
    /\ xpc' = "done"
    /\ xsettled' = IF xsettled = "rejected" THEN "rejected" ELSE "resolved"
    /\ UNCHANGED <<xentry, xdata, xpending, xbefore, dbVars>>
    /\ UNCHANGED exceptTransfer

TransferNext ==
    \/ CallExportData
    \/ ReadTable
    \/ ExportDataReturns
    \/ CallImportData
    \/ CallImportDataOnExport
    \/ CallImportFromFile
    \/ ClearTable
    \/ StartAdding
    \/ BulkAddTable
    \/ ImportSettles

SpecTransfer == TransferInit /\ [][TransferNext]_vars

-----------------------------------------------------------------------------
(* Claims about ExportImportService, checked under SpecTransfer            *)

\* the tables a document describes
ContentsOf(data) ==
    [t \in Tables |-> IF t \in DOMAIN data
                      THEN {data[t][i] : i \in 1..Len(data[t])} ELSE {}]

ImportEnded == xpc = "done" /\ xentry \in {"importData", "importFromFile", "roundTrip"}

\* C6: when a store operation of importData failed, the three tables are all
\* as before the import or all as the document says.
C6_AtomicOnFailure ==
    (ImportEnded /\ xsettled = "rejected" /\ ~InvalidFormat(xdata))
    => \/ Db = xbefore
       \/ \A t \in Tables : Db[t] = ContentsOf(xdata)[t]

\* C7: an import of a document lacking one of the three arrays fails and
\* leaves the three tables unchanged, through importData and importFromFile.
C7_BadFormatRejected ==
    (ImportEnded /\ InvalidFormat(xdata))
    => /\ xsettled = "rejected"
       /\ Db = xbefore

\* C9: importData(exportData()) with no failing store operation leaves the
\* three tables as they were.
C9_RoundTrip ==
    (ImportEnded /\ xentry = "roundTrip" /\ xsettled = "resolved") => Db = xbefore

\* a round trip over a store holding records in all three tables has ended
C9_Witness ==
    /\ ImportEnded
    /\ xentry = "roundTrip"
    /\ xsettled = "resolved"
    /\ \A t \in Tables : Cardinality(xbefore[t]) >= 2

-----------------------------------------------------------------------------
(* AppProvider: createEnvironment, deleteEnvironment, setActiveEnvironment *)

\* table.add(record): stored unless the key exists, which rejects
DbAdd(table, record) ==
    IF record.id \in Ids(table) THEN [table |-> table, failed |-> TRUE]
    ELSE [table |-> table \cup {record}, failed |-> FALSE]

\* table.delete(id)
DbDelete(table, id) == {r \in table : r.id # id}

\* table.toCollection().modify({isActive: false})
DeactivateAll(table) == {[r EXCEPT !.isActive = FALSE] : r \in table}

\* table.update(id, {isActive: true}): no record of that key, no change
Activate(table, id) ==
    {IF r.id = id THEN [r EXCEPT !.isActive = TRUE] ELSE r : r \in table}

\* environments.find(env => env.id === id), NoValue for undefined
Find(envs, id) ==
    IF \E i \in 1..Len(envs) : envs[i].id = id
    THEN envs[CHOOSE i \in 1..Len(envs) :
                 envs[i].id = id /\ \A j \in 1..(i - 1) : envs[j].id # id]
    ELSE NoValue

\* prev.filter(env => env.id !== id)
RECURSIVE FilterOut(_, _)
FilterOut(envs, id) ==
    IF envs = <<>> THEN <<>>
    ELSE (IF Head(envs).id # id THEN <<Head(envs)>> ELSE <<>>) \o FilterOut(Tail(envs), id)

\* the call at index i has run to its end
Finish(i) == calls' = SubSeq(calls, 1, i - 1) \o SubSeq(calls, i + 1, Len(calls))

\* the call at index i moves on to its next await
Advance(i) == calls' = [calls EXCEPT ![i].pc = @ + 1]

\* the variables an environment is created with, and those an edit gives it
CreatedVariables == [n \in {NameA} |-> <<"c">>]
EditedVariables == [n \in {NameA, NameB} |-> <<"-">>]

\* table.update(id, {variables}): no record of that key, no change
DbUpdate(table, id, vs) ==
    {IF r.id = id THEN [r EXCEPT !.variables = vs] ELSE r : r \in table}

\* prev.map(env => env.id === id ? {...env, ...updates} : env)
MapUpdate(envs, id, vs) ==
    [i \in 1..Len(envs) |->
        IF envs[i].id = id THEN [envs[i] EXCEPT !.variables = vs] ELSE envs[i]]

\* the ids a handler can be called with: the user picks a listed environment
ListedIds == {environments[i].id : i \in 1..Len(environments)}

AppInit ==
    /\ WsIdle
    /\ TabIdle
    /\ DeleteIdle
    /\ CurlIdle
    /\ InterpIdle
    /\ SendIdle
    /\ PostmanIdle
    /\ DbEmpty
    /\ TransferIdle
    /\ environments = <<>>
    /\ activeEnvironment = NoValue
    /\ calls = <<>>
    /\ clock = 1
    /\ sending = NoValue
    /\ GenIdle

\* Date.now() moves on
ClockTick ==
    /\ clock < MaxClock
    /\ clock' = clock + 1
    /\ UNCHANGED <<environments, activeEnvironment, calls, dbEnvironments, sending>>
    /\ UNCHANGED exceptApp

\* lines 347-358: createEnvironment up to the await of add
CallCreateEnvironment ==
    /\ Len(calls) < MaxCalls
    /\ calls' = Append(calls, [op |-> "create", pc |-> 1, id |-> clock,
                               seen |-> [Environment(clock, "created", FALSE)
                                            EXCEPT !.variables = CreatedVariables]])
    /\ UNCHANGED <<environments, activeEnvironment, clock, dbEnvironments, sending>>
    /\ UNCHANGED exceptApp

\* lines 358-362: add completes; on success the new record joins the list
CreateEnvironmentAdds ==
    \E i \in 1..Len(calls) :
        /\ calls[i].op = "create"
        /\ LET added == DbAdd(dbEnvironments, calls[i].seen)
           IN  /\ dbEnvironments' = added.table
               /\ environments' = IF added.failed THEN environments
                                  ELSE Append(environments, calls[i].seen)
        /\ Finish(i)
        /\ UNCHANGED <<activeEnvironment, clock, sending>>
        /\ UNCHANGED exceptApp

\* lines 365-367: updateEnvironment up to the await of update
CallUpdateEnvironment ==
    /\ Len(calls) < MaxCalls
    /\ \E id \in ListedIds :
          calls' = Append(calls, [op |-> "update", pc |-> 1, id |-> id, seen |-> NoValue])
    /\ UNCHANGED <<environments, activeEnvironment, clock, dbEnvironments, sending>>
    /\ UNCHANGED exceptApp

\* lines 367-368: update completes and the listed record takes the edit
UpdateEnvironmentUpdates ==
    \E i \in 1..Len(calls) :
        /\ calls[i].op = "update"
        /\ dbEnvironments' = DbUpdate(dbEnvironments, calls[i].id, EditedVariables)
        /\ environments' = MapUpdate(environments, calls[i].id, EditedVariables)
        /\ Finish(i)
        /\ UNCHANGED <<activeEnvironment, clock, sending>>
        /\ UNCHANGED exceptApp

\* lines 374-376: deleteEnvironment up to the await of delete
CallDeleteEnvironment ==
    /\ Len(calls) < MaxCalls
    /\ \E id \in ListedIds :
          calls' = Append(calls, [op |-> "delete", pc |-> 1, id |-> id, seen |-> NoValue])
    /\ UNCHANGED <<environments, activeEnvironment, clock, dbEnvironments, sending>>
    /\ UNCHANGED exceptApp

\* lines 376-377: delete completes and the record leaves the list
DeleteEnvironmentDeletes ==
    \E i \in 1..Len(calls) :
        /\ calls[i].op = "delete"
        /\ dbEnvironments' = DbDelete(dbEnvironments, calls[i].id)
        /\ environments' = FilterOut(environments, calls[i].id)
        /\ Finish(i)
        /\ UNCHANGED <<activeEnvironment, clock, sending>>
        /\ UNCHANGED exceptApp

\* lines 383-386: setActiveEnvironment up to the await of modify; the
\* handler closes over the list of the render it was created in
CallSetActiveEnvironment ==
    /\ Len(calls) < MaxCalls
    /\ \E id \in ListedIds :
          calls' = Append(calls, [op |-> "setActive", pc |-> 1, id |-> id,
                                  seen |-> Find(environments, id)])
    /\ UNCHANGED <<environments, activeEnvironment, clock, dbEnvironments, sending>>
    /\ UNCHANGED exceptApp

\* line 386: every stored environment is deactivated
SetActiveDeactivatesAll ==
    \E i \in 1..Len(calls) :
        /\ calls[i].op = "setActive"
        /\ calls[i].pc = 1
        /\ dbEnvironments' = DeactivateAll(dbEnvironments)
        /\ Advance(i)
        /\ UNCHANGED <<environments, activeEnvironment, clock, sending>>
        /\ UNCHANGED exceptApp

\* lines 389-394: the chosen environment is activated and becomes the
\* active environment of the React state
SetActiveActivates ==
    \E i \in 1..Len(calls) :
        /\ calls[i].op = "setActive"
        /\ calls[i].pc = 2
        /\ dbEnvironments' = Activate(dbEnvironments, calls[i].id)
        /\ activeEnvironment' =
              IF calls[i].seen # NoValue THEN [calls[i].seen EXCEPT !.isActive = TRUE]
              ELSE activeEnvironment
        /\ Finish(i)
        /\ UNCHANGED <<environments, clock, sending>>
        /\ UNCHANGED exceptApp

\* ---- LayoutContent.handleSendRequest, Layout.tsx lines 76-93 ----
\* the texts of a request that names variables
TemplateConfigs ==
    { [method |-> "GET", url |-> Placeholder(NameA) \o <<"-">> \o Placeholder(NameB),
       body |-> Placeholder(NameB),
       headers |-> [h \in {"X-Test"} |-> Placeholder(NameA)]],
      [method |-> "GET", url |-> <<"-">>, body |-> <<>>, headers |-> <<>>] }

\* lines 80-91: the copy of the config with url, body and header values
\* interpolated; an empty body stays absent
ProcessConfig(cfg, vs) ==
    [cfg EXCEPT !.url = interpolateVariables(@, vs),
                !.body = IF @ # <<>> THEN interpolateVariables(@, vs) ELSE <<>>,
                !.headers = [h \in DOMAIN @ |-> interpolateVariables(@[h], vs)]]

\* lines 76-93: the handler up to the await of sendRequest; activeEnvironment
\* is the React state
HandleSendRequest ==
    /\ sending = NoValue
    /\ \E cfg \in TemplateConfigs :
          sending' = [requestConfig |-> cfg,
                      processedConfig |-> IF activeEnvironment # NoValue
                                          THEN ProcessConfig(cfg, activeEnvironment.variables)
                                          ELSE cfg]
    /\ UNCHANGED <<environments, activeEnvironment, calls, clock, dbEnvironments>>
    /\ UNCHANGED exceptApp

\* sendRequest has resolved and the handler ends
SendRequestReturns ==
    /\ sending # NoValue
    /\ sending' = NoValue
    /\ UNCHANGED <<environments, activeEnvironment, calls, clock, dbEnvironments>>
    /\ UNCHANGED exceptApp

AppNext ==
    \/ ClockTick
    \/ CallUpdateEnvironment
    \/ UpdateEnvironmentUpdates
    \/ HandleSendRequest
    \/ SendRequestReturns
    \/ CallCreateEnvironment
    \/ CreateEnvironmentAdds
    \/ CallDeleteEnvironment
    \/ DeleteEnvironmentDeletes
    \/ CallSetActiveEnvironment
    \/ SetActiveDeactivatesAll
    \/ SetActiveActivates

SpecApp == AppInit /\ [][AppNext]_vars

-----------------------------------------------------------------------------
(* Claims about the environment store, checked under SpecApp               *)

ActiveIds == {r.id : r \in {e \in dbEnvironments : e.isActive}}

\* C8: at most one stored environment is active, whatever calls overlap.
C8_AtMostOneActive == Cardinality(ActiveIds) <= 1

-----------------------------------------------------------------------------
(* CodeGenService: generateCurl, generateJavaScript, generatePython        *)
(* The generated text is kept as the sequence of pieces the code appends.  *)

\* Object.entries(o): the properties of a plain object, one after another
RECURSIVE Entries(_)
Entries(o) ==
    IF DOMAIN o = {} THEN <<>>
    ELSE LET k == CHOOSE n \in DOMAIN o : TRUE
         IN  << <<k, o[k]>> >> \o Entries([n \in DOMAIN o \ {k} |-> o[n]])

\* o[k] = v on a plain object: property names are case-sensitive
ObjectSet(o, k, v) == [n \in DOMAIN o \cup {k} |-> IF n = k THEN v ELSE o[n]]

ToLowerCase(method) ==
    CASE method = "GET"  -> "get"
      [] method = "POST" -> "post"
      [] method = "DELETE" -> "delete"
      [] OTHER           -> method

\* options.headers of generateJavaScript: undefined until something sets it
Undefined == [present |-> FALSE]
Defined(o) == [present |-> TRUE, of |-> o]

CannotSetProperty ==
    [isError |-> TRUE, message |-> "Cannot set properties of undefined (setting 'Content-Type')"]

\* config.body && ['POST', 'PUT', 'PATCH'].includes(config.method)
SendsBody(cfg) == cfg.body # "" /\ cfg.method \in BodyMethods

\* one piece per entry, each tagged with the option or statement it goes under
RECURSIVE Tagged(_, _)
Tagged(tag, entries) ==
    IF entries = <<>> THEN <<>>
    ELSE << <<tag, Head(entries)[1], Head(entries)[2]>> >> \o Tagged(tag, Tail(entries))

\* generateCurl lines 13-31: the pieces of the authentication
CurlAuth(auth) ==
    IF auth = NoValue THEN <<>>
    ELSE CASE auth.type = "bearer" /\ auth.token # "" ->
                << <<"-H", "Authorization", <<"Bearer ", auth.token>> >> >>
           [] auth.type = "basic" /\ auth.username # "" /\ auth.password # "" ->
                << <<"-u", auth.username, auth.password>> >>
           [] auth.type = "api-key" /\ auth.key # "" /\ auth.value # "" ->
                << <<"-H", auth.key, auth.value>> >>
           [] OTHER -> <<>>

\* generateCurl lines 34-57: the pieces of the body
CurlBody(cfg) ==
    IF SendsBody(cfg)
    THEN CASE cfg.bodyType = "raw" -> << <<"-d", cfg.body>> >>
           [] cfg.bodyType = "x-www-form-urlencoded" -> << <<"-d", cfg.body>> >>
           [] cfg.bodyType = "form-data" -> Tagged("-F", FormFields(cfg.body))
           [] OTHER -> <<>>
    ELSE <<>>

\* new URL(config.url) with config.params appended: throws on a url that
\* does not parse
GeneratedUrl(cfg) ==
    IF ~UrlTable(cfg.url).ok THEN [threw |-> TRUE, error |-> InvalidURL]
    ELSE [threw |-> FALSE,
          url |-> AppendParams([base |-> UrlTable(cfg.url).base,
                                query |-> UrlTable(cfg.url).query], cfg.params)]

\* lines 4-67; config is the object the caller passed, after the call
generateCurl(cfg) ==
    LET curl == << <<"curl -X", cfg.method>> >>
                \o Tagged("-H", Entries(cfg.headers))
                \o CurlAuth(cfg.auth)
                \o CurlBody(cfg)
        u == GeneratedUrl(cfg)
    IN  IF u.threw THEN [threw |-> TRUE, error |-> u.error, config |-> cfg]
        ELSE [threw |-> FALSE, text |-> curl \o << <<"url", u.url>> >>, config |-> cfg]

\* the header a generator adds for the authentication, or none; btoa throws
\* on a character outside Latin-1
AuthHeader(auth) ==
    IF auth = NoValue THEN [threw |-> FALSE, sets |-> FALSE]
    ELSE CASE auth.type = "bearer" /\ auth.token # "" ->
                [threw |-> FALSE, sets |-> TRUE, name |-> "Authorization",
                 value |-> <<"Bearer ", auth.token>>]
           [] auth.type = "basic" /\ auth.username # "" /\ auth.password # "" ->
                IF Latin1(auth.username) /\ Latin1(auth.password)
                THEN [threw |-> FALSE, sets |-> TRUE, name |-> "Authorization",
                      value |-> <<"Basic ", Btoa(auth.username, auth.password)>>]
                ELSE [threw |-> TRUE, error |-> InvalidCharacter]
           [] auth.type = "api-key" /\ auth.key # "" /\ auth.value # "" ->
                [threw |-> FALSE, sets |-> TRUE, name |-> auth.key, value |-> auth.value]
           [] OTHER -> [threw |-> FALSE, sets |-> FALSE]

\* generateJavaScript lines 86-112: options.headers after the headers and
\* the authentication
JavaScriptHeaders(cfg) ==
    LET own == IF DOMAIN cfg.headers # {} THEN Defined(cfg.headers) ELSE Undefined
        held == IF cfg.auth # NoValue /\ ~own.present THEN Defined(<<>>) ELSE own
        a == AuthHeader(cfg.auth)
    IN  IF a.threw THEN [threw |-> TRUE, error |-> a.error]
        ELSE IF a.sets
        THEN [threw |-> FALSE, headers |-> Defined(ObjectSet(held.of, a.name, a.value))]
        ELSE [threw |-> FALSE, headers |-> held]

\* generateJavaScript lines 115-139: options.body as JSON.stringify prints
\* it (a FormData prints as an empty object) and options.headers after it
JavaScriptBody(cfg, headers) ==
    IF SendsBody(cfg)
    THEN CASE cfg.bodyType = "raw" ->
                [threw |-> FALSE, headers |-> headers, body |-> Defined(cfg.body)]
           [] cfg.bodyType = "x-www-form-urlencoded" ->
                IF headers.present
                THEN [threw |-> FALSE,
                      headers |-> Defined(ObjectSet(headers.of, "Content-Type",
                                                    "application/x-www-form-urlencoded")),
                      body |-> Defined(cfg.body)]
                ELSE [threw |-> TRUE, error |-> CannotSetProperty]
           [] cfg.bodyType = "form-data" ->
                [threw |-> FALSE, headers |-> headers, body |-> Defined("{}")]
           [] OTHER -> [threw |-> FALSE, headers |-> headers, body |-> Undefined]
    ELSE [threw |-> FALSE, headers |-> headers, body |-> Undefined]

\* lines 69-147; options.headers is config.headers itself when that is not
\* empty (line 87), so what is set on it is set on the caller's object
generateJavaScript(cfg) ==
    LET u == GeneratedUrl(cfg)
        h == JavaScriptHeaders(cfg)
        b == JavaScriptBody(cfg, h.headers)
    IN  IF u.threw THEN [threw |-> TRUE, error |-> u.error, config |-> cfg]
        ELSE IF h.threw THEN [threw |-> TRUE, error |-> h.error, config |-> cfg]
        ELSE IF b.threw THEN [threw |-> TRUE, error |-> b.error, config |-> cfg]
        ELSE [threw |-> FALSE,
              text |-> << <<"fetch", u.url>>,
                          <<"options", [method |-> cfg.method, headers |-> b.headers,
                                        body |-> b.body]>> >>,
              config |-> IF DOMAIN cfg.headers # {}
                         THEN [cfg EXCEPT !.headers = b.headers.of] ELSE cfg]

\* generatePython lines 189-211: the statements of the body
PythonBody(cfg) ==
    IF SendsBody(cfg)
    THEN CASE cfg.bodyType = "raw" -> << <<"data", "json", cfg.body>> >>
           [] cfg.bodyType = "x-www-form-urlencoded" -> << <<"data", "quoted", cfg.body>> >>
           [] cfg.bodyType = "form-data" ->
                << <<"files", "{}">> >> \o Tagged("files", FormFields(cfg.body))
           [] OTHER -> <<>>
    ELSE <<>>

\* generatePython lines 214-225: the arguments of the request call
PythonCall(cfg, headers) ==
    <<"requests", ToLowerCase(cfg.method), "url">>
    \o (IF DOMAIN headers # {} THEN <<"headers=headers">> ELSE <<>>)
    \o (IF SendsBody(cfg)
        THEN IF cfg.bodyType = "form-data" THEN <<"files=files">> ELSE <<"data=data">>
        ELSE <<>>)

\* lines 149-231; headers is a copy of config.headers
generatePython(cfg) ==
    LET u == GeneratedUrl(cfg)
        a == AuthHeader(cfg.auth)
        headers == IF ~a.threw /\ a.sets THEN ObjectSet(cfg.headers, a.name, a.value)
                   ELSE cfg.headers
    IN  IF u.threw THEN [threw |-> TRUE, error |-> u.error, config |-> cfg]
        ELSE IF a.threw THEN [threw |-> TRUE, error |-> a.error, config |-> cfg]
        ELSE [threw |-> FALSE,
              text |-> << <<"import requests">>, <<"url", u.url>> >>
                       \o (IF DOMAIN headers # {} THEN << <<"headers", headers>> >> ELSE <<>>)
                       \o PythonBody(cfg)
                       \o << PythonCall(cfg, headers) >>,
              config |-> cfg]

\* the config the request builder hands to the code generator
GenInit ==
    /\ WsIdle
    /\ TabIdle
    /\ DeleteIdle
    /\ CurlIdle
    /\ InterpIdle
    /\ SendIdle
    /\ PostmanIdle
    /\ DbEmpty
    /\ TransferIdle
    /\ AppIdle
    /\ requestConfig \in Configs
    /\ generated = NoValue

\* what a generator returned or threw, as the caller sees it
Outcome(language, outcome) ==
    [language |-> language, threw |-> outcome.threw,
     value |-> IF outcome.threw THEN outcome.error ELSE outcome.text]

GenerateCurl ==
    /\ generated' = Outcome("curl", generateCurl(requestConfig))
    /\ requestConfig' = generateCurl(requestConfig).config
    /\ UNCHANGED exceptGen

GenerateJavaScript ==
    /\ generated' = Outcome("javascript", generateJavaScript(requestConfig))
    /\ requestConfig' = generateJavaScript(requestConfig).config
    /\ UNCHANGED exceptGen

GeneratePython ==
    /\ generated' = Outcome("python", generatePython(requestConfig))
    /\ requestConfig' = generatePython(requestConfig).config
    /\ UNCHANGED exceptGen

GenNext ==
    \/ GenerateCurl
    \/ GenerateJavaScript
    \/ GeneratePython

SpecGen == GenInit /\ [][GenNext]_vars

-----------------------------------------------------------------------------
(* Claims about the code generators, checked under SpecGen                 *)

\* C10: each generator returns a string for every config and never throws.
C10_GeneratorsTotal == generated # NoValue => ~generated.threw

\* C11: a generator call leaves the RequestConfig it was passed as it was,
\* its headers mapping included.
C11_ConfigUnchanged == [][requestConfig' = requestConfig]_vars

\* the pieces of a generated text that carry the given tag
RECURSIVE PiecesTagged(_, _)
PiecesTagged(pieces, tag) ==
    IF pieces = <<>> THEN <<>>
    ELSE (IF Head(pieces)[1] = tag THEN <<Head(pieces)>> ELSE <<>>)
         \o PiecesTagged(Tail(pieces), tag)

\* the headers a generated snippet sends, as name-value pairs
EmittedHeaders(g) ==
    CASE g.language = "curl" ->
            LET hs == PiecesTagged(g.value, "-H")
            IN  [i \in 1..Len(hs) |-> <<hs[i][2], hs[i][3]>>]
      [] g.language = "javascript" ->
            LET options == g.value[2][2]
            IN  IF options.headers.present THEN Entries(options.headers.of) ELSE <<>>
      [] g.language = "python" ->
            LET hs == PiecesTagged(g.value, "headers")
            IN  IF hs = <<>> THEN <<>> ELSE Entries(hs[1][2])

\* the values the emitted headers give for one header name
ValuesOf(headers, name) ==
    LET at == {i \in 1..Len(headers) : headers[i][1] = name}
    IN  [count |-> Cardinality(at), values |-> {headers[i][2] : i \in at}]

Returned == generated # NoValue /\ ~generated.threw

BearerConfig ==
    /\ GetString(requestConfig.auth, "type") = "bearer"
    /\ GetString(requestConfig.auth, "token") # ""

\* C12: with bearer auth and a token, a generated snippet carries exactly one
\* Authorization header, and its value is "Bearer <token>".
C12_OneBearerHeader ==
    (Returned /\ BearerConfig) =>
        ValuesOf(EmittedHeaders(generated), "Authorization") =
            [count |-> 1, values |-> {<<"Bearer ", requestConfig.auth.token>>}]

\* the form fields a generated snippet sends, as a set of name-value pairs;
\* the FormData of the JavaScript options prints as an empty object
FormFieldsCarried(g) ==
    LET tag == IF g.language = "curl" THEN "-F" ELSE "files"
        fs == IF g.language = "javascript" THEN <<>> ELSE PiecesTagged(g.value, tag)
    IN  {<<fs[i][2], fs[i][3]>> : i \in {j \in 1..Len(fs) : Len(fs[j]) = 3}}

\* C13: the form fields carried by a generated snippet are those carried by
\* the curl snippet of the same config.
C13_SameFormFields ==
    (Returned /\ ~generateCurl(requestConfig).threw) =>
        FormFieldsCarried(generated) =
            FormFieldsCarried(Outcome("curl", generateCurl(requestConfig)))

-----------------------------------------------------------------------------
(* RequestBuilder: one config, sent by sendRequest and shown as code       *)

NoProxy == [enableProxy |-> "null", proxyUrl |-> "null"]

\* the configs of a builder with no authentication chosen and a raw body
BuilderConfigs == {c \in Configs : c.auth = NoValue /\ c.bodyType = "raw"}

BuilderInit ==
    /\ WsIdle
    /\ TabIdle
    /\ DeleteIdle
    /\ CurlIdle
    /\ InterpIdle
    /\ PostmanIdle
    /\ DbEmpty
    /\ TransferIdle
    /\ AppIdle
    /\ spc = "idle"
    /\ config \in BuilderConfigs
    /\ storage = NoProxy
    /\ now = 0
    /\ startTime = 0
    /\ request = NoValue
    /\ fetched = NoValue
    /\ thrown = NoError
    /\ settled = "pending"
    /\ response = NoValue
    /\ requestConfig = config
    /\ generated = NoValue

BuilderNext == SendNext \/ GenNext

SpecBuilder == BuilderInit /\ [][BuilderNext]_vars

-----------------------------------------------------------------------------
(* Claims about the url of a config, checked under SpecBuilder             *)

\* the query of a url is the query of config.url followed by config.params
MergedQuery(url, cfg) ==
    LET own == UrlTable(cfg.url).query
    IN  /\ Len(url.query) = Len(own) + Len(cfg.params)
        /\ SubSeq(url.query, 1, Len(own)) = own
        /\ SubSeq(url.query, Len(own) + 1, Len(url.query)) = cfg.params

\* the url a generated snippet names
EmittedUrl(g) ==
    CASE g.language = "curl"       -> g.value[Len(g.value)][2]
      [] g.language = "javascript" -> g.value[1][2]
      [] g.language = "python"     -> g.value[2][2]

\* C14: with no proxy, the url dispatched and the url of every generated
\* snippet keep each query pair of config.url and append one pair per
\* params entry, in order, without removing or replacing any.
C14_QueryMerged ==
    /\ request # NoValue => MergedQuery(request.url, config)
    /\ Returned => MergedQuery(EmittedUrl(generated), requestConfig)

\* a config whose params repeat a key of its url was sent and shown as code
C14_Witness ==
    /\ config.url = "https://x.test/p?a=1"
    /\ config.params = << <<"a", "9">>, <<"b", "2">> >>
    /\ request # NoValue
    /\ request.url.query = << <<"a", "1">>, <<"a", "9">>, <<"b", "2">> >>
    /\ Returned
    /\ EmittedUrl(generated).query = << <<"a", "1">>, <<"a", "9">>, <<"b", "2">> >>

-----------------------------------------------------------------------------
(* Further claims about sendRequest, checked under SpecSend                *)

\* C15: a request whose method is not POST, PUT or PATCH is dispatched
\* without a body and without a Content-Type header put there for a body.
C15_BodySuppressed ==
    (request # NoValue /\ config.method \in {"GET", "HEAD", "DELETE", "OPTIONS"}) =>
        /\ request.body = NoValue
        /\ "content-type" \notin DOMAIN request.headers

\* a DELETE with a url-encoded body went out bare
C15_Witness ==
    /\ config.method = "DELETE"
    /\ config.body = BodyObject
    /\ config.bodyType = "x-www-form-urlencoded"
    /\ request # NoValue
    /\ request.method = "DELETE"
    /\ request.body = NoValue

\* the header the spec derives from an auth of type bearer, basic or api-key
AuthDerived(auth) ==
    CASE auth.type = "bearer" -> <<"authorization", <<"Bearer ", auth.token>> >>
      [] auth.type = "basic" ->
            <<"authorization", <<"Basic ", Btoa(auth.username, auth.password)>> >>
      [] auth.type = "api-key" -> <<Lower(auth.key), auth.value>>

\* C16: with auth of type bearer, basic or api-key, the outgoing headers are
\* the config's headers with exactly the one header of that variant set on
\* top, replacing a user-supplied header of the same name.
C16_OneAuthHeader ==
    (request # NoValue /\ GetString(config.auth, "type") \in {"bearer", "basic", "api-key"}) =>
        LET derived == AuthDerived(config.auth)
            own == NewHeaders(config.headers)
        IN  /\ derived[1] \in DOMAIN request.headers
            /\ request.headers[derived[1]] = derived[2]
            /\ DOMAIN request.headers \ {"content-type"} = DOMAIN own \cup {derived[1]}
            /\ \A n \in DOMAIN own \ {derived[1]} : request.headers[n] = own[n]

\* C17: every response record sendRequest returns carries the UTF-8 length
\* of its body as responseSize.
C17_SizeIsBodyLength ==
    settled = "resolved" => response.responseSize = Utf8Size(response.body)

-----------------------------------------------------------------------------
(* Claims about sending with an environment, checked under SpecApp         *)

StoreActive == {e \in dbEnvironments : e.isActive}

\* C18: the config handed to sendRequest is the given config with url, body
\* and header values interpolated against the variables of the environment
\* that is active in the store when the request is sent, and the given config
\* itself when no environment is active there.  Stated for a request sent
\* while no environment handler is in flight.
C18_UsesActiveOfStore ==
    [][(sending = NoValue /\ sending' # NoValue /\ calls = <<>>) =>
          /\ StoreActive = {} => sending'.processedConfig = sending'.requestConfig
          /\ \A e \in StoreActive :
                StoreActive = {e} =>
                    sending'.processedConfig = ProcessConfig(sending'.requestConfig, e.variables)]_vars

-----------------------------------------------------------------------------
(* Claims about importing a Postman file, checked under SpecPostman        *)

ImportedFile == ppc = "imported file"

\* C19: importing a document that is null or has no info fails; importing a
\* document that has info but no list of items succeeds with no requests.
C19_InfoRequiredItemsOptional ==
    ImportedFile =>
        LET doc == pmText.of
        IN  /\ (doc = NoValue \/ Get(doc, "info") = NoValue) =>
                  (~pmResult.ok /\ pmResult.error.isError)
            /\ (doc # NoValue /\ Get(doc, "info") # NoValue
                /\ (Get(doc, "item") = NoValue \/ Get(doc, "item").kind # "array")) =>
                  (pmResult.ok /\ pmResult.requests = <<>>)

\* a document with info and an item that is no list was imported
C19_Witness ==
    /\ ImportedFile
    /\ pmText.of = [info |-> [name |-> "Team"], item |-> [kind |-> "object"]]
    /\ pmResult.ok
    /\ pmResult.collection.name = "Team"
    /\ pmResult.requests = <<>>

\* the entries of a header list that have both key and value
Complete(entries) ==
    {<<e.key, e.value>> : e \in {entries[i] : i \in {j \in 1..Len(entries) :
        GetString(entries[j], "key") # "" /\ GetString(entries[j], "value") # ""}}}

\* C20: a request item whose request.header is a list is imported with one
\* header per list entry that has key and value.  Stated for the imports
\* that succeed.
C20_HeadersImported ==
    (ImportedFile /\ pmResult.ok /\ Get(pmText.of, "item") # NoValue
     /\ Get(pmText.of, "item").kind = "array") =>
        /\ Len(pmResult.requests) = Len(pmText.of.item.items)
        /\ \A i \in 1..Len(pmResult.requests) :
              LET header == Get(pmText.of.item.items[i].request, "header")
              IN  (header # NoValue /\ header.kind = "array") =>
                      PairSet(pmResult.requests[i].headers) = Complete(header.items)

\* the document imported has info and a list of items
ImportedItems ==
    /\ ImportedFile
    /\ pmText.of # NoValue
    /\ Get(pmText.of, "info") # NoValue
    /\ Get(pmText.of, "item") # NoValue
    /\ Get(pmText.of, "item").kind = "array"

\* C21: a request item whose request.url.query is a list is imported, with
\* one param per query entry that has key and value.
C21_QueryImported ==
    ImportedItems =>
        /\ pmResult.ok
        /\ Len(pmResult.requests) = Len(pmText.of.item.items)
        /\ \A i \in 1..Len(pmResult.requests) :
              LET url == Get(pmText.of.item.items[i].request, "url")
                  query == IF url = NoValue THEN NoValue ELSE Get(url, "query")
              IN  (query # NoValue /\ query.kind = "array") =>
                      PairSet(pmResult.requests[i].params) = Complete(query.items)

-----------------------------------------------------------------------------
(* Claims about PostmanImportExport.handleFileUpload, under SpecPostman    *)

Uploaded == ppc = "uploaded"

\* C22: the requests an import returns have distinct ids and the id of the
\* returned collection as collectionId, and once the upload handler has
\* stored them, each stored request belongs to a stored collection.
C22_RequestsLinked ==
    /\ (ImportedFile /\ pmResult.ok) =>
          /\ \A i, j \in 1..Len(pmResult.requests) :
                pmResult.requests[i].id = pmResult.requests[j].id => i = j
          /\ \A i \in 1..Len(pmResult.requests) :
                pmResult.requests[i].collectionId = pmResult.collection.id
    /\ Uploaded => \A r \in dbRequests : r.collectionId \in Ids(dbCollections)

\* C23: every request of an uploaded collection is stored with the headers,
\* params, body and auth the import gave it.
C23_UploadPreserves ==
    Uploaded =>
        \A i \in 1..Len(pmResult.requests) :
            \E r \in dbRequests :
                LET q == pmResult.requests[i]
                IN  /\ r.name = q.name
                    /\ r.method = q.method
                    /\ r.url = q.url
                    /\ r.headers = q.headers
                    /\ r.params = q.params
                    /\ r.body = q.body
                    /\ r.bodyType = q.bodyType
                    /\ SameAuth(r.auth, q.auth)

-----------------------------------------------------------------------------
(* ExportImportService.generateCurlImport and the cURL tab of              *)
(* ExportImportDialog.  The text is a string and is scanned character by   *)
(* character, as split, trim and the regular expressions scan it.          *)

\* \w
WordLetters == "ABCDEFGHIJKLMNOPQRSTUVWXYZabcdefghijklmnopqrstuvwxyz0123456789_"
CurlWordChars == {SubSeq(WordLetters, i, i) : i \in 1..Len(WordLetters)}

\* where the longest run of characters of the class that starts at i ends:
\* i - 1 if s[i] is not in the class
RunEnd(s, i, class) ==
    IF i > Len(s) THEN i - 1
    ELSE CHOOSE j \in (i - 1)..Len(s) :
            /\ \A k \in i..j : At(s, k) \in class
            /\ j = Len(s) \/ At(s, j + 1) \notin class

\* the same for the characters outside the class
RunEndNot(s, i, class) ==
    IF i > Len(s) THEN i - 1
    ELSE CHOOSE j \in (i - 1)..Len(s) :
            /\ \A k \in i..j : At(s, k) \notin class
            /\ j = Len(s) \/ At(s, j + 1) \in class

\* s.startsWith(prefix)
StartsWith(s, prefix) == Slice(s, 1, Len(prefix)) = prefix

\* the leftmost position of the set, and what matched there
Leftmost(hits, groupsAt(_)) ==
    IF hits = {} THEN [found |-> FALSE, groups |-> <<>>]
    ELSE [found |-> TRUE,
          groups |-> groupsAt(CHOOSE i \in hits : \A k \in hits : i <= k)]

\* /-X\s+(\w+)\s+['"]([^'"]+)['"]/ tried at position i: the ends of the
\* four runs, each of a class the next piece excludes
MethodUrlAt(s, i) ==
    LET a == RunEnd(s, i + 2, Whitespace)
        b == RunEnd(s, a + 1, CurlWordChars)
        c == RunEnd(s, b + 1, Whitespace)
        d == RunEndNot(s, c + 2, Quotes)
    IN  [found |-> /\ Slice(s, i, i + 1) = "-X"
                   /\ a >= i + 2
                   /\ b >= a + 1
                   /\ c >= b + 1
                   /\ At(s, c + 1) \in Quotes
                   /\ d >= c + 2
                   /\ At(s, d + 1) \in Quotes,
         groups |-> <<Slice(s, a + 1, b), Slice(s, c + 2, d)>>]

MatchMethodUrl(s) ==
    LET groupsAt(i) == MethodUrlAt(s, i).groups
    IN  Leftmost({i \in 1..Len(s) : MethodUrlAt(s, i).found}, groupsAt)

\* /['"]([^'"]+)['"]/ tried at position i
QuotedAt(s, i) ==
    LET d == RunEndNot(s, i + 1, Quotes)
    IN  [found |-> At(s, i) \in Quotes /\ d >= i + 1 /\ At(s, d + 1) \in Quotes,
         groups |-> <<Slice(s, i + 1, d)>>]

MatchQuoted(s) ==
    LET groupsAt(i) == QuotedAt(s, i).groups
    IN  Leftmost({i \in 1..Len(s) : QuotedAt(s, i).found}, groupsAt)

\* /-H\s+['"]([^:]+):\s*([^'"]+)['"]/ tried at position i.  \s* takes all the
\* white space after the colon; when a quote follows at once it gives the
\* last white space back to the value
HeaderAt(s, i) ==
    LET a == RunEnd(s, i + 2, Whitespace)
        b == RunEndNot(s, a + 2, {":"})
        c == RunEnd(s, b + 2, Whitespace)
        d == RunEndNot(s, c + 1, Quotes)
        from == IF d >= c + 1 THEN c + 1 ELSE c
        to == IF d >= c + 1 THEN d ELSE c
    IN  [found |-> /\ Slice(s, i, i + 1) = "-H"
                   /\ a >= i + 2
                   /\ At(s, a + 1) \in Quotes
                   /\ b >= a + 2
                   /\ At(s, b + 1) = ":"
                   /\ from >= b + 2
                   /\ At(s, to + 1) \in Quotes,
         groups |-> <<Slice(s, a + 2, b), Slice(s, from, to)>>]

MatchHeader(s) ==
    LET groupsAt(i) == HeaderAt(s, i).groups
    IN  Leftmost({i \in 1..Len(s) : HeaderAt(s, i).found}, groupsAt)

\* /-d\s+['"]([^'"]+)['"]/ tried at position i
DataAt(s, i) ==
    LET a == RunEnd(s, i + 2, Whitespace)
        d == RunEndNot(s, a + 2, Quotes)
    IN  [found |-> /\ Slice(s, i, i + 1) = "-d"
                   /\ a >= i + 2
                   /\ At(s, a + 1) \in Quotes
                   /\ d >= a + 2
                   /\ At(s, d + 1) \in Quotes,
         groups |-> <<Slice(s, a + 2, d)>>]

MatchData(s) ==
    LET groupsAt(i) == DataAt(s, i).groups
    IN  Leftmost({i \in 1..Len(s) : DataAt(s, i).found}, groupsAt)

\* the object a curl line starts; url and body are not set yet ("")
StartedRequest == [method |-> "GET", url |-> "", headers |-> <<>>, params |-> <<>>,
                   body |-> ""]

\* the record pushed for currentRequest, lines 107-118 and 157-168
CurlRecord(current, requestIndex) ==
    [id |-> "imported-" \o ToString(requestIndex),
     name |-> current.url,
     method |-> IF current.method = "" THEN "GET" ELSE current.method,
     url |-> current.url,
     headers |-> current.headers,
     params |-> current.params,
     bodyType |-> "raw",
     order |-> requestIndex]

\* if (currentRequest && currentRequest.url) requests.push(...)
PushCurrent(scan) ==
    IF scan.current # NoValue /\ scan.current.url # ""
    THEN [scan EXCEPT !.requests = Append(@, CurlRecord(scan.current, scan.requestIndex)),
                      !.requestIndex = @ + 1]
    ELSE scan

\* one turn of the loop over the lines, lines 101-153
ScanLine(scan, line) ==
    LET trimmedLine == Trim(line)
        urlMatch == MatchMethodUrl(trimmedLine)
        urlMatch2 == MatchQuoted(trimmedLine)
        headerMatch == MatchHeader(trimmedLine)
        bodyMatch == MatchData(trimmedLine)
    IN  IF StartsWith(trimmedLine, "curl ")
        THEN [PushCurrent(scan) EXCEPT !.current =
                 IF urlMatch.found
                 THEN [StartedRequest EXCEPT !.method = urlMatch.groups[1],
                                             !.url = urlMatch.groups[2]]
                 ELSE IF urlMatch2.found
                 THEN [StartedRequest EXCEPT !.url = urlMatch2.groups[1]]
                 ELSE StartedRequest]
        ELSE IF StartsWith(trimmedLine, "-H ")
        THEN IF headerMatch.found /\ scan.current # NoValue
             THEN [scan EXCEPT !.current.headers =
                      ObjectSet(@, headerMatch.groups[1], headerMatch.groups[2])]
             ELSE scan
        ELSE IF StartsWith(trimmedLine, "-d ")
        THEN IF bodyMatch.found /\ scan.current # NoValue
             THEN [scan EXCEPT !.current.body = bodyMatch.groups[1]]
             ELSE scan
        ELSE scan

RECURSIVE ScanLines(_, _)
ScanLines(scan, lines) ==
    IF lines = <<>> THEN scan
    ELSE ScanLines(ScanLine(scan, Head(lines)), Tail(lines))

generateCurlImport(t) ==
    PushCurrent(ScanLines([requests |-> <<>>, current |-> NoValue, requestIndex |-> 0],
                          Split(t, "\n"))).requests

\* ---- inputs ----
\* a command as the cURL tab shows it: the curl line, a -H line per header
\* and a -d line if there is a body
HeaderLine(h) == "\n-H '" \o h[1] \o ": " \o h[2] \o "'"

RECURSIVE HeaderLines(_)
HeaderLines(hs) == IF hs = <<>> THEN "" ELSE HeaderLine(Head(hs)) \o HeaderLines(Tail(hs))

CurlCommand(g) ==
    "curl -X " \o g.method \o " '" \o g.url \o "'" \o HeaderLines(g.headers)
        \o (IF g.body = "" THEN "" ELSE "\n-d '" \o g.body \o "'")

RECURSIVE CurlCommands(_)
CurlCommands(gs) ==
    IF Len(gs) = 1 THEN CurlCommand(gs[1])
    ELSE CurlCommand(Head(gs)) \o "\n" \o CurlCommands(Tail(gs))

Group(method, url, headers, body) ==
    [method |-> method, url |-> url, headers |-> headers, body |-> body]

GroupsOfModel ==
    { << Group("POST", "https://x.test/a", << <<"X-Test", "1">> >>, "hello") >>,
      << Group("GET", "https://x.test/b", <<>>, "") >>,
      << Group("PUT", "https://x.test/a", <<>>, "a=1"),
         Group("DELETE", "https://x.test/b",
               << <<"Accept", "text/plain">>, <<"X-Test", "2">> >>, "") >> }

CurlTexts ==
    {CurlCommands(gs) : gs \in GroupsOfModel}
        \cup {"", "  ", "curl \"https://x.test/c\"", "-H 'X-Test: 1'", "curl --help"}

\* a request stored earlier by RequestService.createRequest
EarlierRequest ==
    [id |-> Uuids[2], name |-> "old", method |-> "GET", url |-> "https://x.test/a",
     headers |-> <<>>, params |-> <<>>, bodyType |-> "raw", order |-> 0]

CurlInit ==
    /\ WsIdle
    /\ TabIdle
    /\ DeleteIdle
    /\ InterpIdle
    /\ SendIdle
    /\ PostmanIdle
    /\ TransferIdle
    /\ AppIdle
    /\ GenIdle
    /\ dbCollections = {}
    /\ dbEnvironments = {}
    /\ dbRequests \in {{}, {EarlierRequest}}
    /\ CurlIdle

\* the textarea's onChange: setCurlText(e.target.value)
SetCurlText ==
    /\ \E t \in CurlTexts : curlText' = t
    /\ UNCHANGED <<curlRequests, curlAlert, dbRequests>>
    /\ UNCHANGED exceptCurl

\* ExportImportDialog.handleCurlImport, lines 43-70
HandleCurlImport ==
    LET requests == generateCurlImport(curlText)
        added == BulkAdd(dbRequests, requests)
    IN  /\ IF Trim(curlText) = ""
           THEN /\ curlAlert' = "Please enter cURL commands"
                /\ UNCHANGED <<curlRequests, dbRequests>>
           ELSE IF Len(requests) = 0
           THEN /\ curlAlert' = "No valid cURL commands found"
                /\ curlRequests' = requests
                /\ UNCHANGED dbRequests
           ELSE /\ dbRequests' = added.table
                /\ curlRequests' = requests
                /\ curlAlert' = IF added.failed
                                THEN "cURL import failed. Please check the format."
                                ELSE ToString(Len(requests))
                                         \o " requests imported successfully!"
        /\ UNCHANGED curlText
        /\ UNCHANGED exceptCurl

CurlNext == SetCurlText \/ HandleCurlImport

SpecCurl == CurlInit /\ [][CurlNext]_vars

-----------------------------------------------------------------------------
(* Claims about the cURL import, under SpecCurl                            *)

\* the elements of a list
Range(list) == {list[i] : i \in DOMAIN list}

\* the headers object of the pairs
HeadersObject(hs) == [n \in {h[1] : h \in Range(hs)} |->
                         (CHOOSE h \in Range(hs) : h[1] = n)[2]]

\* C24: a text of curl groups (a curl -X line, -H lines, a -d line) parses
\* to one request per group, with the group's method, url, headers and body.
C24_GroupsParsed ==
    [][\A gs \in GroupsOfModel :
          (HandleCurlImport /\ curlText = CurlCommands(gs)) =>
              /\ Len(curlRequests') = Len(gs)
              /\ \A i \in 1..Len(gs) :
                    /\ curlRequests'[i].method = gs[i].method
                    /\ curlRequests'[i].url = gs[i].url
                    /\ curlRequests'[i].headers = HeadersObject(gs[i].headers)
                    /\ GetString(curlRequests'[i], "body") = gs[i].body]_vars

\* C29: every request a cURL import parsed is stored: its id is not the id
\* of a request stored earlier, a request of an earlier import included.
C29_EveryParsedStored ==
    [][(HandleCurlImport /\ Trim(curlText) # "") =>
          \A i \in 1..Len(curlRequests') : curlRequests'[i] \in dbRequests']_vars

-----------------------------------------------------------------------------
(* sendRequest on the requests of a url-encoded form                       *)

\* the bodies of a form: the JSON object, the JSON list the Postman import
\* writes, key=value lines, a line with a second '=', JSON of other kinds,
\* plain text
FormBodies == {BodyObject, BodyPairList, BodyLinesText, BodyEquals, BodyNumber,
               BodyNull, BodyPlain}

FormConfigs ==
    [method : {"POST", "PUT", "PATCH"},
     url : Urls,
     headers : HeadersOfModel,
     params : {<<>>},
     body : FormBodies,
     bodyType : {"x-www-form-urlencoded"},
     auth : {NoValue}]

FormInit ==
    /\ WsIdle
    /\ TabIdle
    /\ DeleteIdle
    /\ CurlIdle
    /\ InterpIdle
    /\ PostmanIdle
    /\ DbEmpty
    /\ TransferIdle
    /\ AppIdle
    /\ GenIdle
    /\ spc = "idle"
    /\ config \in FormConfigs
    /\ storage = NoProxy
    /\ now = 0
    /\ startTime = 0
    /\ request = NoValue
    /\ fetched = NoValue
    /\ thrown = NoError
    /\ settled = "pending"
    /\ response = NoValue

SpecForm == FormInit /\ [][SendNext]_vars

\* the key-value pairs a form body holds
PairsOf(b) ==
    CASE b = BodyObject    -> << <<"a", "1">> >>
      [] b = BodyPairList  -> << <<"a", "1">> >>
      [] b = BodyLinesText -> << <<"a", "1">>, <<"b", "2">> >>
      [] b = BodyEquals    -> << <<"t", "a=b">> >>
      [] OTHER             -> <<>>

\* C25: the payload of a url-encoded POST, PUT or PATCH has one field per
\* key-value pair of the body, whatever the form of the body, and the
\* Content-Type of a url-encoded form.
C25_OneFieldPerPair ==
    (request # NoValue /\ config.method \in BodyMethods
                       /\ config.bodyType = "x-www-form-urlencoded"
                       /\ config.body # "") =>
        /\ request.body # NoValue
        /\ request.body.kind = "urlencoded"
        /\ request.body.fields = PairsOf(config.body)
        /\ "content-type" \in DOMAIN request.headers
        /\ request.headers["content-type"] = "application/x-www-form-urlencoded"

-----------------------------------------------------------------------------
(* CollectionService.deleteCollection over the Dexie store.  Every await   *)
(* is a step; the recursion is a stack of calls.                           *)

\* a collection and its parent (0: no parentId), a request and its
\* collection (0: no collectionId)
Folder(id, parentId) == [id |-> id, name |-> "c", parentId |-> parentId]
Item(id, collectionId) == [id |-> id, name |-> "r", collectionId |-> collectionId]

\* the collection tables of the model: every forest over the ids, a parent
\* having a smaller id than its children
Forests ==
    UNION { { {Folder(i, parent[i]) : i \in ids}
              : parent \in {p \in [ids -> 0..MaxCollections] :
                               \A i \in ids : p[i] < i /\ p[i] \in ids \cup {0}} }
            : ids \in SUBSET (1..MaxCollections) }

\* the request tables: at most one request for a collection id and one
\* for none
ItemTables == { {Item(i + 1, i) : i \in at} : at \in SUBSET (0..MaxCollections) }

DeleteInit ==
    /\ WsIdle
    /\ TabIdle
    /\ InterpIdle
    /\ SendIdle
    /\ PostmanIdle
    /\ TransferIdle
    /\ AppIdle
    /\ GenIdle
    /\ CurlIdle
    /\ dbCollections \in Forests
    /\ dbRequests \in ItemTables
    /\ dbEnvironments = {}
    /\ DeleteIdle

\* db.requests.where('collectionId').equals(id).delete()
DeleteWhereCollection(table, id) == {r \in table : r.collectionId # id}

\* a variant that finds no sub-collections
NoSubCollections(table, id) == <<>>

\* db.collections.where('parentId').equals(id).toArray()
WhereParent(table, id) == ToArray({c \in table : c.parentId = id})

Top == dstack[Len(dstack)]

\* the call at the top of the stack moves on
Proceed(pc, subs) ==
    [dstack EXCEPT ![Len(dstack)] = [id |-> Top.id, pc |-> pc, subCollections |-> subs]]

\* a call with the id of the collection to delete
CallDeleteCollection ==
    /\ dpc = "idle"
    /\ \E id \in 1..MaxCollections :
          /\ dtarget' = id
          /\ dstack' = <<[id |-> id, pc |-> "requests", subCollections |-> <<>>]>>
    /\ dpc' = "running"
    /\ dbefore' = [collections |-> dbCollections, requests |-> dbRequests]
    /\ UNCHANGED <<dbCollections, dbRequests>>
    /\ UNCHANGED exceptDelete

\* line 30
DeleteRequestsOfCollection ==
    /\ dpc = "running"
    /\ Top.pc = "requests"
    /\ dbRequests' = DeleteWhereCollection(dbRequests, Top.id)
    /\ dstack' = Proceed("list", <<>>)
    /\ UNCHANGED <<dpc, dtarget, dbefore, dbCollections>>
    /\ UNCHANGED exceptDelete

\* line 33
ListSubCollections ==
    /\ dpc = "running"
    /\ Top.pc = "list"
    /\ dstack' = Proceed("loop", WhereParent(dbCollections, Top.id))
    /\ UNCHANGED <<dpc, dtarget, dbefore, dbCollections, dbRequests>>
    /\ UNCHANGED exceptDelete

\* lines 34-36: the call for the next sub-collection
DeleteSubCollection ==
    /\ dpc = "running"
    /\ Top.pc = "loop"
    /\ Top.subCollections # <<>>
    /\ dstack' = Append(Proceed("loop", Tail(Top.subCollections)),
                        [id |-> Head(Top.subCollections).id, pc |-> "requests",
                         subCollections |-> <<>>])
    /\ UNCHANGED <<dpc, dtarget, dbefore, dbCollections, dbRequests>>
    /\ UNCHANGED exceptDelete

\* line 39, and the call returns
DeleteItself ==
    /\ dpc = "running"
    /\ Top.pc = "loop"
    /\ Top.subCollections = <<>>
    /\ dbCollections' = DbDelete(dbCollections, Top.id)
    /\ dstack' = SubSeq(dstack, 1, Len(dstack) - 1)
    /\ dpc' = IF Len(dstack) = 1 THEN "done" ELSE "running"
    /\ UNCHANGED <<dtarget, dbefore, dbRequests>>
    /\ UNCHANGED exceptDelete

DeleteNext ==
    \/ CallDeleteCollection
    \/ DeleteRequestsOfCollection
    \/ ListSubCollections
    \/ DeleteSubCollection
    \/ DeleteItself

SpecDelete == DeleteInit /\ [][DeleteNext]_vars

-----------------------------------------------------------------------------
(* Claims about deleteCollection, under SpecDelete                         *)

\* id and the ids of the collections below it through parentId
RECURSIVE Subtree(_, _)
Subtree(table, ids) ==
    LET below == ids \cup {c.id : c \in {d \in table : d.parentId \in ids}}
    IN  IF below = ids THEN ids ELSE Subtree(table, below)

\* C26: when deleteCollection(id) has completed, the collections that were id
\* or below it and the requests of those collections are gone, and every
\* other collection and request is as it was.
C26_SubtreeDeleted ==
    dpc = "done" =>
        LET gone == Subtree(dbefore.collections, {dtarget})
        IN  /\ dbCollections = {c \in dbefore.collections : c.id \notin gone}
            /\ dbRequests = {r \in dbefore.requests : r.collectionId \notin gone}

\* a collection with a child and a grandchild, each holding a request, was
\* deleted, and a collection and a request outside it are still stored
C26_Witness ==
    /\ dpc = "done"
    /\ dtarget = 1
    /\ {Folder(2, 1), Folder(3, 2), Folder(4, 0)} \subseteq dbefore.collections
    /\ {Item(2, 1), Item(4, 3), Item(5, 4)} \subseteq dbefore.requests
    /\ dbCollections = {Folder(4, 0)}
    /\ Item(5, 4) \in dbRequests

-----------------------------------------------------------------------------
(* Claims about the active environment in memory, checked under SpecApp    *)

\* the activeEnvironment in memory is null while no stored environment is
\* active, or has the id and the variables of a stored active environment
ActiveMatchesStore ==
    IF activeEnvironment = NoValue THEN StoreActive = {}
    ELSE \E e \in StoreActive :
            /\ e.id = activeEnvironment.id
            /\ e.variables = activeEnvironment.variables

\* C27: a handler that runs alone and found the activeEnvironment in memory
\* in agreement with the store leaves it in agreement with the store.
C27_ActiveMatchesStore ==
    [][(Len(calls) = 1 /\ calls' = <<>> /\ ActiveMatchesStore) =>
          ActiveMatchesStore']_vars

-----------------------------------------------------------------------------
(* AppProvider: createTab, closeTab, selectTab.  A handler runs to its end *)
(* within one event; the state it reads is the state of the last render.   *)

Tab(id, name, requestId) ==
    [id |-> id, name |-> name, type |-> "request", requestId |-> requestId,
     isActive |-> FALSE, isDirty |-> FALSE]

\* name: requestId ? 'Request' : (initialData?.name || 'New Request')
TabName(requestId, initialData) ==
    IF requestId # "" THEN "Request"
    ELSE IF GetString(initialData, "name") # "" THEN initialData.name
    ELSE "New Request"

\* the arguments of createTab: no requestId ("") or one, no initialData
\* (NoValue) or the data of a history entry
TabRequestIds == {"", "r1"}
TabInitialData == {NoValue, [name |-> "GET https://x.test/a"]}

\* prev.map(tab => ({...tab, isActive: false})) followed by the new tab
WithNewTab(prev, newTab) ==
    [i \in 1..Len(prev) |-> [prev[i] EXCEPT !.isActive = FALSE]] \o <<newTab>>

\* prev.filter(tab => tab.id !== tabId)
RECURSIVE WithoutTab(_, _)
WithoutTab(prev, tabId) ==
    IF prev = <<>> THEN <<>>
    ELSE (IF Head(prev).id # tabId THEN <<Head(prev)>> ELSE <<>>)
             \o WithoutTab(Tail(prev), tabId)

\* prev.map(tab => ({...tab, isActive: tab.id === tabId}))
WithSelected(prev, tabId) ==
    [i \in 1..Len(prev) |-> [prev[i] EXCEPT !.isActive = (prev[i].id = tabId)]]

TabIdsOf(list) == {list[i].id : i \in 1..Len(list)}

\* the state loadData leaves: the initial tab, created at the first reading
\* of the clock
TabInit ==
    /\ WsIdle
    /\ InterpIdle
    /\ SendIdle
    /\ PostmanIdle
    /\ DbEmpty
    /\ TransferIdle
    /\ GenIdle
    /\ CurlIdle
    /\ DeleteIdle
    /\ environments = <<>>
    /\ activeEnvironment = NoValue
    /\ calls = <<>>
    /\ clock = 1
    /\ sending = NoValue
    /\ tabs = <<Tab(ToString(1), "New Request", "")>>
    /\ activeTabId = ToString(1)
    /\ initialRequestData = NoValue

\* lines 298-320
CreateTab ==
    /\ Len(tabs) < MaxTabs
    /\ \E requestId \in TabRequestIds, initialData \in TabInitialData :
          LET newTab == Tab(ToString(clock), TabName(requestId, initialData), requestId)
          IN  /\ tabs' = WithNewTab(tabs, newTab)
              /\ activeTabId' = newTab.id
              /\ initialRequestData' = initialData
    /\ UNCHANGED clock
    /\ UNCHANGED exceptTabs

\* lines 322-332, for the id of a tab of the list
CloseTab ==
    /\ \E tabId \in TabIdsOf(tabs) :
          IF Len(tabs) <= 1 THEN UNCHANGED <<tabs, activeTabId>>
          ELSE /\ tabs' = WithoutTab(tabs, tabId)
               /\ LET remainingTabs == WithoutTab(tabs, tabId)
                  IN  activeTabId' =
                          IF activeTabId = tabId /\ Len(remainingTabs) > 0
                          THEN remainingTabs[Len(remainingTabs)].id
                          ELSE activeTabId
    /\ UNCHANGED initialRequestData
    /\ UNCHANGED clock
    /\ UNCHANGED exceptTabs

\* lines 334-337, for the id of a tab of the list
SelectTab ==
    /\ \E tabId \in TabIdsOf(tabs) :
          /\ tabs' = WithSelected(tabs, tabId)
          /\ activeTabId' = tabId
    /\ UNCHANGED initialRequestData
    /\ UNCHANGED clock
    /\ UNCHANGED exceptTabs

\* Date.now() moves on between two events, or does not
TabClockTick ==
    /\ clock < MaxClock
    /\ clock' = clock + 1
    /\ UNCHANGED tabVars
    /\ UNCHANGED exceptTabs

TabNext == CreateTab \/ CloseTab \/ SelectTab \/ TabClockTick

SpecTabs == TabInit /\ [][TabNext]_vars

-----------------------------------------------------------------------------
(* Claims about the tabs, under SpecTabs                                   *)

\* C28: after createTab, closeTab or selectTab of an existing tab, there is a
\* tab, no two tabs share an id, and activeTabId is the id of a tab; closeTab
\* on the only tab changes nothing.
C28_TabsWellFormed ==
    [][/\ Len(tabs') >= 1
       /\ \A i, j \in 1..Len(tabs') : tabs'[i].id = tabs'[j].id => i = j
       /\ activeTabId' \in TabIdsOf(tabs')
       /\ (CloseTab /\ Len(tabs) = 1) => UNCHANGED tabVars]_vars

-----------------------------------------------------------------------------
(* WebSocketClient: connect, disconnect and the callbacks of the sockets.  *)
(* A socket is its readyState; the platform delivers its events later, one *)
(* task each.                                                              *)

exceptWs == <<interpVars, sendVars, postmanVars, dbVars, transferVars, appVars, genVars,
              curlVars, deleteVars, tabVars>>

\* the urls typed into the field: one the WebSocket constructor accepts and
\* one it rejects with a SyntaxError
WsUrls == {"ws://localhost:8080", "localhost"}

ValidWsUrl(u) == u = "ws://localhost:8080"

\* socket.close(): a socket that is connecting or open starts closing
Closed(list, i) ==
    IF i = 0 THEN list
    ELSE [list EXCEPT ![i] = IF @ \in {"connecting", "open"} THEN "closing" ELSE @]

WsInit ==
    /\ InterpIdle
    /\ SendIdle
    /\ PostmanIdle
    /\ DbEmpty
    /\ TransferIdle
    /\ AppIdle
    /\ GenIdle
    /\ CurlIdle
    /\ DeleteIdle
    /\ TabIdle
    /\ WsIdle

\* the url field, disabled while isConnected
SetUrl ==
    /\ ~isConnected
    /\ \E u \in WsUrls : wsUrl' = u
    /\ UNCHANGED <<sockets, wsRef, isConnected, connectionStatus, messages>>
    /\ UNCHANGED exceptWs

\* the calls of connect so far: each has left its message
Connects == Cardinality({i \in 1..Len(messages) : messages[i] = "Connecting..."})

\* lines 15-51; the button calls connect while isConnected is false
Connect ==
    /\ ~isConnected
    /\ Connects < MaxConnects
    /\ IF ValidWsUrl(wsUrl)
       THEN /\ sockets' = Append(Closed(sockets, wsRef), "connecting")
            /\ wsRef' = Len(sockets) + 1
            /\ connectionStatus' = "connecting"
            /\ messages' = Append(messages, "Connecting...")
       ELSE /\ sockets' = Closed(sockets, wsRef)
            /\ wsRef' = wsRef
            /\ connectionStatus' = "disconnected"
            /\ messages' = messages \o <<"Connecting...", "Connection failed: SyntaxError">>
    /\ UNCHANGED <<wsUrl, isConnected>>
    /\ UNCHANGED exceptWs

\* lines 53-60; the button calls disconnect while isConnected is true
Disconnect ==
    /\ isConnected
    /\ sockets' = Closed(sockets, wsRef)
    /\ wsRef' = 0
    /\ isConnected' = FALSE
    /\ connectionStatus' = "disconnected"
    /\ UNCHANGED <<wsUrl, messages>>
    /\ UNCHANGED exceptWs

\* the open event of socket i and its onopen, lines 27-31
SocketOpens(i) ==
    /\ sockets[i] = "connecting"
    /\ sockets' = [sockets EXCEPT ![i] = "open"]
    /\ isConnected' = TRUE
    /\ connectionStatus' = "connected"
    /\ messages' = Append(messages, "Connected successfully")
    /\ UNCHANGED <<wsUrl, wsRef>>
    /\ UNCHANGED exceptWs

\* the connection of socket i is closed: the error event, if the connection
\* failed, and the close event are fired in one task; onerror lines 43-46,
\* onclose lines 37-41
SocketCloses(i, failed) ==
    /\ sockets[i] \in {"connecting", "open", "closing"}
    /\ sockets[i] = "connecting" => failed
    /\ sockets' = [sockets EXCEPT ![i] = "closed"]
    /\ isConnected' = FALSE
    /\ connectionStatus' = "disconnected"
    /\ messages' = messages
                     \o (IF failed THEN <<"Error: [object Event]">> ELSE <<>>)
                     \o <<"Connection closed">>
    /\ UNCHANGED <<wsUrl, wsRef>>
    /\ UNCHANGED exceptWs

SocketEvent ==
    \E i \in 1..Len(sockets) :
        \/ SocketOpens(i)
        \/ \E failed \in BOOLEAN : SocketCloses(i, failed)

WsNext == SetUrl \/ Connect \/ Disconnect \/ SocketEvent

SpecWs == WsInit /\ [][WsNext]_vars

-----------------------------------------------------------------------------
(* Claims about the WebSocket client, under SpecWs                         *)

\* C30: isConnected is true with connectionStatus 'connected' only while the
\* socket wsRef refers to is open, and the close (or error) event of a socket
\* wsRef does not refer to leaves isConnected and connectionStatus alone.
C30_OnlyCurrentSocketCounts ==
    [][/\ (isConnected' /\ connectionStatus' = "connected") =>
              (wsRef' # 0 /\ sockets'[wsRef'] = "open")
       /\ \A i \in 1..Len(sockets) : \A failed \in BOOLEAN :
              (SocketCloses(i, failed) /\ i # wsRef) =>
                  UNCHANGED <<isConnected, connectionStatus>>]_vars

=============================================================================
